---- MODULE Spec2Model ----
(***************************************************************************)
(* A model of the header engine of ante (core/header.ts), of the line      *)
(* formatter it lays its lines out with (core/formatter.ts) and of the     *)
(* configuration it reads (core/config.generated.ts, core/config.ts), of   *)
(* the glob matcher and the contributor merge (core/glob.ts,               *)
(* core/contributors.ts) and of the fix and check commands that run the    *)
(* engine on the files of a repository (cli/commands).                     *)
(*                                                                         *)
(* A string is a sequence of one-character strings, a file content is one  *)
(* such sequence with "\n" between its lines.  Numbers are rendered to and *)
(* read from decimal digits the way the template literals and parseInt of  *)
(* the source do it, and the four regular expressions of header.ts are     *)
(* matched by operators that follow the backtracking order of the engine.  *)
(***************************************************************************)
EXTENDS Integers, Sequences, FiniteSets, TLC

(***************************************************************************)
(* Strings                                                                 *)
(***************************************************************************)

\* F applied to the value of x: x is evaluated once, however often F uses it
At(F(_), x) == CHOOSE y \in {F(v) : v \in {x}} : TRUE

\* " ".repeat(n), char.repeat(n): the string s written n times
Repeat(s, n) ==
    IF n <= 0 THEN <<>>
    ELSE <<>> \o [i \in 1..(n * Len(s)) |-> s[((i - 1) % Len(s)) + 1]]

\* \s of a JavaScript regular expression, and the characters trim() strips
IsSpace(c) == c \in {" ", "\t", "\n", "\r"}

\* \d
IsDigit(c) == c \in {"0", "1", "2", "3", "4", "5", "6", "7", "8", "9"}

\* . (any character but a line terminator)
IsDot(c) == c \notin {"\n", "\r"}

UpperCase == <<"A", "B", "C", "D", "E", "F", "G", "H", "I", "J", "K", "L", "M",
               "N", "O", "P", "Q", "R", "S", "T", "U", "V", "W", "X", "Y", "Z">>
LowerCase == <<"a", "b", "c", "d", "e", "f", "g", "h", "i", "j", "k", "l", "m",
               "n", "o", "p", "q", "r", "s", "t", "u", "v", "w", "x", "y", "z">>

\* String.prototype.toLowerCase on one character
LowerChar(c) ==
    IF \E i \in 1..26 : UpperCase[i] = c
    THEN LowerCase[CHOOSE i \in 1..26 : UpperCase[i] = c]
    ELSE c

\* String.prototype.toLowerCase
toLowerCase(s) == <<>> \o [i \in 1..Len(s) |-> LowerChar(s[i])]

\* s.substring(i - 1): the characters of s from the 1-based index i on
From(s, i) == SubSeq(s, i, Len(s))

\* lit occurs in s at the 1-based index i
HasAt(s, i, lit) ==
    /\ i >= 1
    /\ i + Len(lit) - 1 <= Len(s)
    /\ \A k \in 1..Len(lit) : s[i + k - 1] = lit[k]

\* the same, letters compared without case (the i flag of a regular expression)
HasAtNoCase(s, i, lit) ==
    /\ i >= 1
    /\ i + Len(lit) - 1 <= Len(s)
    /\ \A k \in 1..Len(lit) : LowerChar(s[i + k - 1]) = LowerChar(lit[k])

\* s.includes(lit)
Includes(s, lit) == \E i \in 1..(Len(s) + 1) : HasAt(s, i, lit)

\* the index of the first character at or after i that is not white space
\* (Len(s) + 1 when there is none): where a greedy \s* started at i stops
SkipSpace(s, i) ==
    IF i > Len(s) THEN i
    ELSE CHOOSE j \in i..(Len(s) + 1) :
            /\ j = Len(s) + 1 \/ ~IsSpace(s[j])
            /\ \A k \in i..(j - 1) : IsSpace(s[k])

\* the index after the run of non-space characters that starts at i:
\* where a greedy \S+ started at i stops
SkipToken(s, i) ==
    IF i > Len(s) THEN i
    ELSE CHOOSE j \in i..(Len(s) + 1) :
            /\ j = Len(s) + 1 \/ IsSpace(s[j])
            /\ \A k \in i..(j - 1) : ~IsSpace(s[k])

\* the index of the first "\n" at or after i, Len(s) + 1 when there is none
LineEnd(s, i) ==
    CHOOSE j \in i..(Len(s) + 1) :
        /\ j = Len(s) + 1 \/ s[j] = "\n"
        /\ \A k \in i..(j - 1) : s[k] # "\n"

\* content.split("\n"), one line at a time from the index i on
RECURSIVE SplitFrom(_, _)
SplitFrom(s, i) ==
    At(LAMBDA j : <<SubSeq(s, i, j - 1)>>
                  \o (IF j > Len(s) THEN <<>> ELSE SplitFrom(s, j + 1)),
       LineEnd(s, i))

Split(s) == At(LAMBDA v : SplitFrom(v, 1), s)

\* lines.join("\n"), from the line i on
RECURSIVE JoinFrom(_, _)
JoinFrom(lines, i) ==
    IF i > Len(lines) THEN <<>>
    ELSE IF i = Len(lines) THEN lines[i]
    ELSE lines[i] \o <<"\n">> \o JoinFrom(lines, i + 1)

Join(lines) == At(LAMBDA v : JoinFrom(v, 1), lines)

\* lines.slice(n + 1): the slice taken one line late
SliceAfter(lines, n) == At(LAMBDA v : SubSeq(v, n + 2, Len(v)), lines)

\* lines.slice(n)
SliceFrom(lines, n) == At(LAMBDA v : SubSeq(v, n + 1, Len(v)), lines)

\* lines.slice(0, n) for n >= 0
SliceTo(lines, n) ==
    At(LAMBDA v : SubSeq(v, 1, IF n < Len(v) THEN n ELSE Len(v)), lines)

\* String.prototype.trimStart
trimStart(s) == At(LAMBDA v : From(v, SkipSpace(v, 1)), s)

\* line.trim() === ""
IsBlank(s) == \A i \in 1..Len(s) : IsSpace(s[i])

\* `${n}` for a number n >= 0
Digits == <<"0", "1", "2", "3", "4", "5", "6", "7", "8", "9">>

RECURSIVE NumToString(_)
NumToString(n) ==
    IF n < 10 THEN <<Digits[n + 1]>>
    ELSE NumToString(n \div 10) \o <<Digits[(n % 10) + 1]>>

DigitValue(c) == (CHOOSE i \in 1..10 : Digits[i] = c) - 1

\* parseInt(s, 10) for a string of digits
RECURSIVE parseInt(_)
parseInt(s) ==
    IF Len(s) = 0 THEN 0
    ELSE parseInt(SubSeq(s, 1, Len(s) - 1)) * 10 + DigitValue(s[Len(s)])

(***************************************************************************)
(* core/formatter.ts                                                       *)
(***************************************************************************)

\* the place of columns[i] after
\* [...columns].sort((a, b) => a.position - b.position), a stable sort
ColumnRank(columns, i) ==
    1 + Cardinality({j \in 1..Len(columns) :
                        \/ columns[j].position < columns[i].position
                        \/ /\ columns[j].position = columns[i].position
                           /\ j < i})

SortColumns(columns) ==
    <<>> \o [k \in 1..Len(columns) |->
               columns[CHOOSE i \in 1..Len(columns) : ColumnRank(columns, i) = k]]

\* the loop body of formatLine without the space between columns that meet
PlaceColumnNoSpace(col, result) ==
    LET currentPos == Len(result)
        paddingNeeded == col.position - currentPos
    IN  (IF paddingNeeded > 0
         THEN result \o Repeat(<<" ">>, paddingNeeded)
         ELSE result)
        \o col.content

\* one iteration of the loop of formatLine; currentPos is Len(result)
PlaceColumn(col, result) ==
    LET currentPos == Len(result)
        paddingNeeded == col.position - currentPos
    IN  (IF paddingNeeded > 0
         THEN result \o Repeat(<<" ">>, paddingNeeded)
         ELSE IF currentPos > 0 THEN result \o <<" ">>
         ELSE result)
        \o col.content

\* the loop of formatLine over the sorted columns
RECURSIVE FormatLoop(_, _, _)
FormatLoop(sorted, i, result) ==
    IF i > Len(sorted) THEN result
    ELSE At(LAMBDA placed : FormatLoop(sorted, i + 1, placed),
            PlaceColumn(sorted[i], result))

formatLine(columns) ==
    At(LAMBDA cols :
          IF Len(cols) = 0 THEN <<>>
          ELSE At(LAMBDA sorted : FormatLoop(sorted, 1, <<>>),
                  SortColumns(cols)),
       columns)

generateSeparator(width, char, prefix) ==
    LET separatorLength == width - Len(prefix)
    IN  IF separatorLength <= 0 THEN prefix
        ELSE prefix \o Repeat(char, separatorLength)

CopyrightText == <<" ", "C", "o", "p", "y", "r", "i", "g", "h", "t", " ",
                   "(", "c", ")", " ">>

formatCopyrightLine(config, yearPart, name, email) ==
    LET prefix == config.commentPrefix
        lineStart == IF yearPart # <<>>
                     THEN prefix \o CopyrightText \o yearPart
                     ELSE prefix
    IN  formatLine(<< [content |-> lineStart, position |-> 0],
                      [content |-> name, position |-> config.nameColumn],
                      [content |-> email, position |-> config.emailColumn] >>)

SpdxText == <<" ", "S", "P", "D", "X", "-", "L", "i", "c", "e", "n", "s", "e",
              "-", "I", "d", "e", "n", "t", "i", "f", "i", "e", "r", ":", " ">>

formatSpdxLine(config) ==
    LET prefix == config.commentPrefix
        spdxPart == prefix \o SpdxText \o config.spdxLicense
    IN  formatLine(<< [content |-> spdxPart, position |-> 0],
                      [content |-> config.licenseUrl,
                       position |-> config.licenseUrlColumn],
                      [content |-> config.maintainerEmail,
                       position |-> config.maintainerColumn] >>)

(***************************************************************************)
(* core/header.ts: the regular expressions                                 *)
(***************************************************************************)

\* a string | null that is null
NullString == <<"null">>

\* SEPARATOR_REGEX = /^\/\/[-=*]+$/ tested on one line
IsSeparator(line) ==
    /\ Len(line) >= 3
    /\ line[1] = "/"
    /\ line[2] = "/"
    /\ \A i \in 3..Len(line) : line[i] \in {"-", "=", "*"}

\* (\S+@\S+) matches at t: both \S+ are greedy, so the capture is the whole
\* run of non-space characters from t, which must hold an "@" that is
\* neither its first nor its last character
IsEmailAt(line, t) ==
    \E i \in (t + 1)..(SkipToken(line, t) - 2) : line[i] = "@"

\* the capture of a greedy \S+ run that starts at t
TokenAt(line, t) == SubSeq(line, t, SkipToken(line, t) - 1)

\* \s{2,}(\S+@\S+) matches at e: the greedy \s{2,} takes the whole run of
\* white space (giving any of it back leaves \S+ on a space)
NameEnd(line, e) ==
    /\ e + 1 <= Len(line)
    /\ IsSpace(line[e])
    /\ IsSpace(line[e + 1])
    /\ \E t \in {SkipSpace(line, e)} : IsEmailAt(line, t)

NoMatch == [matched |-> FALSE, name |-> <<>>, email |-> <<>>]

\* \s{n,}(.+?)\s{2,}(\S+@\S+) matched at q, n = minSpace.  The greedy \s{n,}
\* first takes the whole run of white space up to w, and the lazy (.+?) then
\* grows from w to the first end the rest matches at.  When no end does,
\* \s{n,} gives back white space: the name is then one white-space character,
\* the last one that still leaves two of them before an email at w.
MatchNameEmail(line, q, minSpace) ==
    LET Captured(w, e) ==
            At(LAMBDA t : [matched |-> TRUE,
                           name |-> SubSeq(line, w, e - 1),
                           email |-> TokenAt(line, t)],
               SkipSpace(line, e))
        OfSpace(w) ==
            LET starts == {s \in (q + minSpace)..(w - 3) : IsDot(line[s])}
            IN  IF starts # {} /\ IsEmailAt(line, w)
                THEN At(LAMBDA s : [matched |-> TRUE,
                                    name |-> <<line[s]>>,
                                    email |-> TokenAt(line, w)],
                        CHOOSE x \in starts : \A y \in starts : x >= y)
                ELSE NoMatch
        OfEnds(w, ends) ==
            IF ends # {}
            THEN At(LAMBDA e : Captured(w, e),
                    CHOOSE x \in ends : \A y \in ends : x <= y)
            ELSE OfSpace(w)
        FromRun(w) ==
            IF w - q < minSpace THEN NoMatch
            ELSE At(LAMBDA ends : OfEnds(w, ends),
                    {e \in (w + 1)..Len(line) :
                        /\ NameEnd(line, e)
                        /\ \A k \in w..(e - 1) : IsDot(line[k])})
    IN  At(FromRun, SkipSpace(line, q))

IsYearAt(line, d) ==
    /\ d + 3 <= Len(line)
    /\ \A k \in 0..3 : IsDigit(line[d + k])

CopyrightWord == <<"C", "o", "p", "y", "r", "i", "g", "h", "t">>
ParenC == <<"(", "c", ")">>

NoCopyright ==
    [matched |-> FALSE, year1 |-> <<>>, year2 |-> <<>>, name |-> <<>>,
     email |-> <<>>]

\* line.match(COPYRIGHT_REGEX), COPYRIGHT_REGEX =
\* /^\/\/\s*Copyright\s*\(c\)\s*(\d{4})(?:-(\d{4}))?\s+(.+?)\s{2,}(\S+@\S+)/i
\* p, c and d are where the word, the "(c)" and the first year start;
\* year2 is <<>> when the optional group did not take part in the match
CopyrightMatch(line) ==
    LET FromYear(d) ==
            LET hasSecond == /\ d + 4 <= Len(line)
                             /\ line[d + 4] = "-"
                             /\ IsYearAt(line, d + 5)
            IN  IF ~IsYearAt(line, d) THEN NoCopyright
                ELSE At(LAMBDA rest :
                           IF ~rest.matched THEN NoCopyright
                           ELSE [matched |-> TRUE,
                                 year1 |-> SubSeq(line, d, d + 3),
                                 year2 |-> IF hasSecond
                                           THEN SubSeq(line, d + 5, d + 8)
                                           ELSE <<>>,
                                 name |-> rest.name,
                                 email |-> rest.email],
                        MatchNameEmail(line, IF hasSecond THEN d + 9 ELSE d + 4,
                                       1))
        FromParen(c) ==
            IF ~HasAtNoCase(line, c, ParenC) THEN NoCopyright
            ELSE At(FromYear, SkipSpace(line, c + Len(ParenC)))
        FromWord(p) ==
            IF ~HasAtNoCase(line, p, CopyrightWord) THEN NoCopyright
            ELSE At(FromParen, SkipSpace(line, p + Len(CopyrightWord)))
    IN  IF ~HasAt(line, 1, <<"/", "/">>) THEN NoCopyright
        ELSE At(FromWord, SkipSpace(line, 3))

MinIndent == 10

\* line.match(CONTRIBUTOR_REGEX),
\* CONTRIBUTOR_REGEX = /^\/\/\s{10,}(.+?)\s{2,}(\S+@\S+)/
ContributorMatch(line) ==
    IF HasAt(line, 1, <<"/", "/">>)
    THEN MatchNameEmail(line, 3, MinIndent)
    ELSE NoMatch

SpdxWord == <<"S", "P", "D", "X", "-", "L", "i", "c", "e", "n", "s", "e",
              "-", "I", "d", "e", "n", "t", "i", "f", "i", "e", "r", ":">>
HttpsWord == <<"h", "t", "t", "p", "s", ":", "/", "/">>
HttpWord == <<"h", "t", "t", "p", ":", "/", "/">>

\* (https?:\/\/\S+) matches at v
IsUrlAt(line, v) ==
    \/ /\ HasAtNoCase(line, v, HttpsWord)
       /\ v + Len(HttpsWord) <= Len(line)
       /\ ~IsSpace(line[v + Len(HttpsWord)])
    \/ /\ HasAtNoCase(line, v, HttpWord)
       /\ v + Len(HttpWord) <= Len(line)
       /\ ~IsSpace(line[v + Len(HttpWord)])

NoSpdx ==
    [matched |-> FALSE, license |-> <<>>, url |-> NullString,
     email |-> NullString]

\* line.match(SPDX_REGEX), SPDX_REGEX =
\* /^\/\/\s*SPDX-License-Identifier:\s*(\S+)\s+(https?:\/\/\S+)?\s*(\S+@\S+)?/i
\* with `spdxMatch[2] || null` and `spdxMatch[3] || null` applied.
\* p is where the word starts, t..u - 1 the licence, v the text after it and
\* m the text after the URL (v itself when no URL matched)
SpdxMatch(line) ==
    LET FromMail(t, u, v, hasUrl, m) ==
            [matched |-> TRUE,
             license |-> SubSeq(line, t, u - 1),
             url |-> IF hasUrl THEN TokenAt(line, v) ELSE NullString,
             email |-> IF m <= Len(line) /\ IsEmailAt(line, m)
                       THEN TokenAt(line, m) ELSE NullString]
        FromUrl(t, u, v) ==
            At(LAMBDA hasUrl :
                  At(LAMBDA m : FromMail(t, u, v, hasUrl, m),
                     IF hasUrl THEN SkipSpace(line, SkipToken(line, v)) ELSE v),
               v <= Len(line) /\ IsUrlAt(line, v))
        FromLicense(t) ==
            At(LAMBDA u : IF u > t /\ u <= Len(line)
                          THEN At(LAMBDA v : FromUrl(t, u, v), SkipSpace(line, u))
                          ELSE NoSpdx,
               SkipToken(line, t))
        FromWord(p) ==
            IF ~HasAtNoCase(line, p, SpdxWord) THEN NoSpdx
            ELSE At(FromLicense, SkipSpace(line, p + Len(SpdxWord)))
    IN  IF ~HasAt(line, 1, <<"/", "/">>) THEN NoSpdx
        ELSE At(FromWord, SkipSpace(line, 3))

(***************************************************************************)
(* core/header.ts: the operations                                          *)
(***************************************************************************)

\* the value parseHeader returns for `null`
NullHeader ==
    [found |-> FALSE, raw |-> <<>>, startLine |-> 0, endLine |-> 0,
     yearStart |-> 0, yearEnd |-> 0, contributors |-> <<>>,
     spdxLicense |-> NullString, licenseUrl |-> NullString,
     maintainerEmail |-> NullString]

\* the locals of parseHeader before its loop
ScanStart ==
    [endLine |-> -1, yearStart |-> 0, yearEnd |-> 0, contributors |-> <<>>,
     spdxLicense |-> NullString, licenseUrl |-> NullString,
     maintainerEmail |-> NullString]

\* the loop body of parseHeader with the years taken from the first copyright
\* line only
ScanLineFirstYears(line, acc) ==
    LET OnSpdx(spdxMatch) ==
            IF spdxMatch.matched
            THEN [acc EXCEPT !.spdxLicense = spdxMatch.license,
                             !.licenseUrl = spdxMatch.url,
                             !.maintainerEmail = spdxMatch.email]
            ELSE acc
        OnContributor(contributorMatch) ==
            IF contributorMatch.matched
            THEN [acc EXCEPT
                    !.contributors =
                        Append(@, [name |-> contributorMatch.name,
                                   email |-> contributorMatch.email])]
            ELSE At(OnSpdx, SpdxMatch(line))
        OnCopyright(copyrightMatch) ==
            IF copyrightMatch.matched
            THEN LET yearStart == parseInt(copyrightMatch.year1)
                     first == acc.yearStart = 0 /\ acc.yearEnd = 0
                 IN  [acc EXCEPT
                        !.yearStart = IF first THEN yearStart ELSE @,
                        !.yearEnd = IF ~first THEN @
                                    ELSE IF copyrightMatch.year2 # <<>>
                                    THEN parseInt(copyrightMatch.year2)
                                    ELSE yearStart,
                        !.contributors =
                            Append(@, [name |-> copyrightMatch.name,
                                       email |-> copyrightMatch.email])]
            ELSE At(OnContributor, ContributorMatch(line))
    IN  At(OnCopyright, CopyrightMatch(line))

\* one iteration of the loop of parseHeader on a line that is no separator
ScanLine(line, acc) ==
    LET OnSpdx(spdxMatch) ==
            IF spdxMatch.matched
            THEN [acc EXCEPT !.spdxLicense = spdxMatch.license,
                             !.licenseUrl = spdxMatch.url,
                             !.maintainerEmail = spdxMatch.email]
            ELSE acc
        OnContributor(contributorMatch) ==
            IF contributorMatch.matched
            THEN [acc EXCEPT
                    !.contributors =
                        Append(@, [name |-> contributorMatch.name,
                                   email |-> contributorMatch.email])]
            ELSE At(OnSpdx, SpdxMatch(line))
        OnCopyright(copyrightMatch) ==
            IF copyrightMatch.matched
            THEN LET yearStart == parseInt(copyrightMatch.year1)
                 IN  [acc EXCEPT
                        !.yearStart = yearStart,
                        !.yearEnd = IF copyrightMatch.year2 # <<>>
                                    THEN parseInt(copyrightMatch.year2)
                                    ELSE yearStart,
                        !.contributors =
                            Append(@, [name |-> copyrightMatch.name,
                                       email |-> copyrightMatch.email])]
            ELSE At(OnContributor, ContributorMatch(line))
    IN  At(OnCopyright, CopyrightMatch(line))

\* the loop of parseHeader; i is the 1-based index of lines[i - 1] of the source
RECURSIVE ScanLines(_, _, _)
ScanLines(lines, i, acc) ==
    IF i > Len(lines) THEN acc
    ELSE IF IsSeparator(lines[i]) THEN [acc EXCEPT !.endLine = i]
    ELSE At(LAMBDA scanned : ScanLines(lines, i + 1, scanned),
            ScanLine(lines[i], acc))

\* what parseHeader returns once its loop has left its locals in acc
ParsedFrom(lines, acc) ==
    IF Len(lines) = 0 \/ ~IsSeparator(lines[1]) THEN NullHeader
    ELSE IF acc.endLine = -1 THEN NullHeader
    ELSE [found |-> TRUE,
          raw |-> Join(SliceTo(lines, acc.endLine)),
          startLine |-> 1,
          endLine |-> acc.endLine,
          yearStart |-> acc.yearStart,
          yearEnd |-> acc.yearEnd,
          contributors |-> acc.contributors,
          spdxLicense |-> acc.spdxLicense,
          licenseUrl |-> acc.licenseUrl,
          maintainerEmail |-> acc.maintainerEmail]

\* parseHeader with its scan started on the opening separator
parseHeaderFromFirst(content) ==
    At(LAMBDA lines :
          At(LAMBDA acc : ParsedFrom(lines, acc),
             ScanLines(lines, 1, ScanStart)),
       Split(content))

\* parseHeader: the scan for the closing separator starts on the second line
parseHeader(content) ==
    At(LAMBDA lines :
          At(LAMBDA acc : ParsedFrom(lines, acc),
             ScanLines(lines, 2, ScanStart)),
       Split(content))

\* an optional number that was not passed
NoYear == -1

\* generateHeader showing every contributor it is given
DisplayAllContributors(config, contributors) == contributors

\* contributors.slice(0, config.maxContributors) for maxContributors >= 0
DisplayContributors(config, contributors) ==
    SliceTo(contributors, config.maxContributors)

\* the year text of generateHeader
YearPart(yearStart, yearEnd) ==
    LET effectiveYearEnd == IF yearEnd = NoYear THEN yearStart ELSE yearEnd
    IN  IF yearStart = effectiveYearEnd
        THEN NumToString(yearStart)
        ELSE NumToString(yearStart) \o <<"-">> \o NumToString(effectiveYearEnd)

\* the array `lines` of generateHeader before it is joined
HeaderLines(config, contributors, yearStart, yearEnd) ==
    LET separator == generateSeparator(config.width, config.separatorChar,
                                       config.commentPrefix)
        yearPart == YearPart(yearStart, yearEnd)
        Body(displayContributors) ==
            [i \in 1..Len(displayContributors) |->
                formatCopyrightLine(config,
                                    IF i = 1 THEN yearPart ELSE <<>>,
                                    displayContributors[i].name,
                                    displayContributors[i].email)]
    IN  <<separator>>
        \o At(Body, DisplayContributors(config, contributors))
        \o <<formatSpdxLine(config), separator>>

generateHeader(config, contributors, yearStart, yearEnd) ==
    Join(HeaderLines(config, contributors, yearStart, yearEnd))

\* contributors.some(c => c.email === email): the emails compared as written
HasEmailExact(contributors, email) ==
    \E i \in 1..Len(contributors) : contributors[i].email = email

\* contributors.some(c => c.email.toLowerCase() === email.toLowerCase())
HasEmail(contributors, email) ==
    \E i \in 1..Len(contributors) :
        toLowerCase(contributors[i].email) = toLowerCase(email)

\* the year end updateHeader regenerates with; updateYear is NoYear when absent
UpdatedYearEnd(existingHeader, updateYear) ==
    IF updateYear # NoYear /\ updateYear # 0 /\ updateYear > existingHeader.yearEnd
    THEN updateYear
    ELSE existingHeader.yearEnd

\* updateHeader putting the new contributor first
UpdatedContributorsNewFirst(existingHeader, newContributor) ==
    IF Len(newContributor) = 1
       /\ ~HasEmail(existingHeader.contributors, newContributor[1].email)
    THEN newContributor \o existingHeader.contributors
    ELSE existingHeader.contributors

\* the contributor list updateHeader regenerates with; newContributor is a
\* sequence of no or one contributor
UpdatedContributors(existingHeader, newContributor) ==
    IF Len(newContributor) = 1
       /\ ~HasEmail(existingHeader.contributors, newContributor[1].email)
    THEN Append(existingHeader.contributors, newContributor[1])
    ELSE existingHeader.contributors

updateHeader(existingHeader, config, newContributor, updateYear) ==
    At(LAMBDA parsed :
          generateHeader(config,
                         UpdatedContributors(parsed, newContributor),
                         parsed.yearStart,
                         UpdatedYearEnd(parsed, updateYear)),
       existingHeader)

hasValidHeader(content) ==
    \E parsed \in {parseHeader(content)} :
        parsed.found /\ Len(parsed.contributors) > 0

\* getYearRange returning null
NullRange == [found |-> FALSE]

\* getYearRange returning the years of every header that parses
getYearRangeOfParsed(content) ==
    At(LAMBDA parsed :
          IF ~parsed.found THEN NullRange
          ELSE [found |-> TRUE, yearStart |-> parsed.yearStart,
                yearEnd |-> parsed.yearEnd],
       parseHeader(content))

getYearRange(content) ==
    At(LAMBDA parsed :
          IF ~parsed.found \/ parsed.yearStart = 0 THEN NullRange
          ELSE [found |-> TRUE, yearStart |-> parsed.yearStart,
                yearEnd |-> parsed.yearEnd],
       parseHeader(content))

\* validateHeader stopping at the first check that fails
IssuesOfFirst(parsed, config, currentYear) ==
    IF parsed.yearStart > currentYear
    THEN << <<"Year ">> \o NumToString(parsed.yearStart)
            \o <<" is in the future">> >>
    ELSE IF parsed.yearEnd > currentYear
    THEN << <<"End year ">> \o NumToString(parsed.yearEnd)
            \o <<" is in the future">> >>
    ELSE IF parsed.yearEnd < parsed.yearStart
    THEN << <<"End year ">> \o NumToString(parsed.yearEnd)
            \o <<" is before start year ">>
            \o NumToString(parsed.yearStart) >>
    ELSE IF config.spdxLicense # <<>>
            /\ parsed.spdxLicense # config.spdxLicense
    THEN << <<"SPDX license '">> \o parsed.spdxLicense
            \o <<"' does not match config '">> \o config.spdxLicense
            \o <<"'">> >>
    ELSE IF Len(parsed.contributors) = 0
    THEN << <<"No contributors found in header">> >>
    ELSE <<>>

\* the checks validateHeader makes on a parsed header.  An issue is its
\* message as the sequence of the parts its template literal joins: the fixed
\* texts whole, the interpolated values character by character (a null
\* spdxLicense reads "null")
IssuesOf(parsed, config, currentYear) ==
    (IF parsed.yearStart > currentYear
     THEN << <<"Year ">> \o NumToString(parsed.yearStart)
             \o <<" is in the future">> >>
     ELSE <<>>)
    \o (IF parsed.yearEnd > currentYear
        THEN << <<"End year ">> \o NumToString(parsed.yearEnd)
                \o <<" is in the future">> >>
        ELSE <<>>)
    \o (IF parsed.yearEnd < parsed.yearStart
        THEN << <<"End year ">> \o NumToString(parsed.yearEnd)
                \o <<" is before start year ">>
                \o NumToString(parsed.yearStart) >>
        ELSE <<>>)
    \o (IF config.spdxLicense # <<>>
           /\ parsed.spdxLicense # config.spdxLicense
        THEN << <<"SPDX license '">> \o parsed.spdxLicense
                \o <<"' does not match config '">> \o config.spdxLicense
                \o <<"'">> >>
        ELSE <<>>)
    \o (IF Len(parsed.contributors) = 0
        THEN << <<"No contributors found in header">> >>
        ELSE <<>>)

\* validateHeader; currentYear is new Date().getFullYear()
validateHeader(content, config, currentYear) ==
    At(LAMBDA parsed :
          IF ~parsed.found
          THEN [valid |-> FALSE, issues |-> << <<"No valid header found">> >>]
          ELSE At(LAMBDA issues : [valid |-> Len(issues) = 0,
                                   issues |-> issues],
                  IssuesOf(parsed, config, currentYear)),
       parseHeader(content))

\* replaceHeader over an existing header that never adds an empty line
ReplaceExistingNoBlank(content, newHeader, existingHeader) ==
    newHeader \o <<"\n">>
    \o Join(SliceFrom(Split(content), existingHeader.endLine))

\* replaceHeader(content, newHeader, existingHeader)
ReplaceExisting(content, newHeader, existingHeader) ==
    At(LAMBDA afterHeader :
          newHeader \o <<"\n">>
          \o (IF Len(afterHeader) > 0 /\ IsBlank(afterHeader[1])
              THEN <<>> ELSE <<"\n">>)
          \o Join(afterHeader),
       SliceFrom(Split(content), existingHeader.endLine))

\* replaceHeader(content, newHeader) with one "\n" after the header
PrependHeaderOneNewline(content, newHeader) ==
    newHeader \o <<"\n">> \o trimStart(content)

\* replaceHeader(content, newHeader)
PrependHeader(content, newHeader) ==
    newHeader \o <<"\n", "\n">> \o trimStart(content)

replaceHeader(content, newHeader, existingHeader) ==
    At(LAMBDA existing :
          IF existing.found
          THEN ReplaceExisting(content, newHeader, existing)
          ELSE PrependHeader(content, newHeader),
       existingHeader)

(***************************************************************************)
(* core/glob.ts                                                            *)
(***************************************************************************)

\* pattern[i - 1] of the source, i the 1-based index: a character, or
\* undefined outside the pattern
CharAt(pattern, i) ==
    IF i \in 1..Len(pattern) THEN pattern[i] ELSE "undefined"

\* the texts globToRegex appends to regexStr for the wild cards
ZeroOrMoreDirs == <<"(", "?", ":", ".", "*", "\\", "/", ")", "?">>
Anything == <<".", "*">>
NoSeparators == <<"[", "^", "/", "]", "*">>
NoSeparator == <<"[", "^", "/", "]">>

\* the characters globToRegex escapes besides the dot
RegexSpecial == {"+", "^", "$", "{", "}", "(", ")", "|", "[", "]", "\\"}

\* a character appended as it is written
Unescaped(char) == <<char>>

\* "\\" + char
Escaped(char) == <<"\\", char>>

\* one iteration of the loop of globToRegex at the 1-based index i: the text
\* appended to regexStr and the number of characters i advances by
CompileAt(pattern, i) ==
    LET char == pattern[i]
        nextChar == CharAt(pattern, i + 1)
        prevChar == CharAt(pattern, i - 1)
        afterNext == CharAt(pattern, i + 2)
        atStart == prevChar = "/" \/ prevChar = "undefined"
    IN  IF char = "*" /\ nextChar = "*"
        THEN IF atStart /\ afterNext = "/"
             THEN [piece |-> ZeroOrMoreDirs, skip |-> 3]
             ELSE IF atStart /\ afterNext = "undefined"
             THEN [piece |-> Anything, skip |-> 2]
             ELSE IF prevChar = "/" /\ afterNext # "undefined"
             THEN [piece |-> ZeroOrMoreDirs, skip |-> 3]
             ELSE [piece |-> Anything, skip |-> 2]
        ELSE IF char = "*" THEN [piece |-> NoSeparators, skip |-> 1]
        ELSE IF char = "?" THEN [piece |-> NoSeparator, skip |-> 1]
        ELSE IF char = "." THEN [piece |-> Escaped(char), skip |-> 1]
        ELSE IF char \in RegexSpecial
        THEN [piece |-> Escaped(char), skip |-> 1]
        ELSE [piece |-> <<char>>, skip |-> 1]

\* the loop of globToRegex: regexStr as the sequence of the texts appended
RECURSIVE CompileFrom(_, _)
CompileFrom(pattern, i) ==
    IF i > Len(pattern) THEN <<>>
    ELSE At(LAMBDA step : <<step.piece>>
                          \o CompileFrom(pattern, i + step.skip),
            CompileAt(pattern, i))

\* globToRegex: the source of the regular expression, piece by piece;
\* /^$/ for the empty pattern
globToRegex(pattern) ==
    IF pattern = <<>> THEN << <<"^">>, <<"$">> >>
    ELSE << <<"^">> >> \o CompileFrom(pattern, 1) \o << <<"$">> >>

\* path[p..q - 1] is matched by .* (any characters)
SpanAnything(path, p, q) == \A k \in p..(q - 1) : IsDot(path[k])

\* path[p..q - 1] is matched by a class that has the "/" too
SpanWithSeparators(path, p, q) == \A k \in p..(q - 1) : IsDot(path[k])

\* path[p..q - 1] is matched by [^/]*
SpanNoSeparator(path, p, q) == \A k \in p..(q - 1) : path[k] # "/"

\* path[p..q - 1] is matched by .*, taken for (?:.*\/)?
SpanDirsPartial(path, p, q) == SpanAnything(path, p, q)

\* path[p..q - 1] is matched by (?:.*\/)?: nothing, or characters up to a "/"
SpanDirs(path, p, q) ==
    \/ q = p
    \/ /\ q > p
       /\ path[q - 1] = "/"
       /\ \A k \in p..(q - 2) : IsDot(path[k])

\* the pieces of the regular expression from the piece t on match the path
\* from the 1-based index p on
RECURSIVE MatchFrom(_, _, _, _)
MatchFrom(regex, t, path, p) ==
    IF t > Len(regex) THEN TRUE
    ELSE IF regex[t] = <<"^">> THEN p = 1 /\ MatchFrom(regex, t + 1, path, p)
    ELSE IF regex[t] = <<"$">>
    THEN p = Len(path) + 1 /\ MatchFrom(regex, t + 1, path, p)
    ELSE IF regex[t] = ZeroOrMoreDirs
    THEN \E q \in p..(Len(path) + 1) :
            SpanDirs(path, p, q) /\ MatchFrom(regex, t + 1, path, q)
    ELSE IF regex[t] = Anything
    THEN \E q \in p..(Len(path) + 1) :
            SpanAnything(path, p, q) /\ MatchFrom(regex, t + 1, path, q)
    ELSE IF regex[t] = NoSeparators
    THEN \E q \in p..(Len(path) + 1) :
            SpanNoSeparator(path, p, q) /\ MatchFrom(regex, t + 1, path, q)
    ELSE /\ p <= Len(path)
         /\ IF regex[t] = NoSeparator THEN path[p] # "/"
            ELSE IF Len(regex[t]) = 2 THEN path[p] = regex[t][2]
            ELSE IF regex[t] = <<".">> THEN IsDot(path[p])
            ELSE path[p] = regex[t][1]
         /\ MatchFrom(regex, t + 1, path, p + 1)

\* regex.test(path): a match starting anywhere in the path
RegexTest(regex, path) ==
    \E p \in 1..(Len(path) + 1) : MatchFrom(regex, 1, path, p)

matchesGlob(path, pattern) ==
    At(LAMBDA regex : RegexTest(regex, path), globToRegex(pattern))

\* patterns.some((pattern) => matchesGlob(path, pattern))
matchesAnyGlob(path, patterns) ==
    \E i \in 1..Len(patterns) : matchesGlob(path, patterns[i])

\* filterPaths keeping every path an include pattern matches
filterPathsIncluded(paths, includePatterns, excludePatterns) ==
    SelectSeq(paths, LAMBDA path : matchesAnyGlob(path, includePatterns))

filterPaths(paths, includePatterns, excludePatterns) ==
    SelectSeq(paths,
              LAMBDA path :
                  IF matchesAnyGlob(path, excludePatterns) THEN FALSE
                  ELSE matchesAnyGlob(path, includePatterns))

(***************************************************************************)
(* core/contributors.ts                                                    *)
(***************************************************************************)

\* the key of a contributor with the email compared as written
ContributorKeyExact(c) == c.email

\* c.email.toLowerCase(), the key mergeContributors remembers in `seen`
ContributorKey(c) == toLowerCase(c.email)

\* one iteration of the loop of mergeContributors
MergeStep(merged, c) ==
    IF ContributorKey(c) \notin merged.seen
    THEN [seen |-> merged.seen \cup {ContributorKey(c)},
          result |-> Append(merged.result, c)]
    ELSE merged

\* the loop of mergeContributors over [...existing, ...newContributors]
RECURSIVE MergeFrom(_, _, _)
MergeFrom(all, i, merged) ==
    IF i > Len(all) THEN merged.result
    ELSE At(LAMBDA next : MergeFrom(all, i + 1, next),
            MergeStep(merged, all[i]))

mergeContributors(existing, newContributors) ==
    At(LAMBDA all : MergeFrom(all, 1, [seen |-> {}, result |-> <<>>]),
       existing \o newContributors)

(***************************************************************************)
(* cli/commands/fix.ts: the file matcher of the fix command                *)
(***************************************************************************)

\* the chain of replace calls of matchesPattern at the 1-based index i: "**"
\* becomes ".*" by way of the placeholder, a remaining "*" becomes "[^/]*",
\* "?" becomes "." and every other character stays as it is written
ReplaceAt(pattern, i) ==
    LET char == pattern[i]
        nextChar == CharAt(pattern, i + 1)
    IN  IF char = "*" /\ nextChar = "*"
        THEN [piece |-> Anything, skip |-> 2]
        ELSE IF char = "*" THEN [piece |-> NoSeparators, skip |-> 1]
        ELSE IF char = "?" THEN [piece |-> <<".">>, skip |-> 1]
        ELSE [piece |-> <<char>>, skip |-> 1]

\* regexPattern of matchesPattern, piece by piece
RECURSIVE ReplaceFrom(_, _)
ReplaceFrom(pattern, i) ==
    IF i > Len(pattern) THEN <<>>
    ELSE At(LAMBDA step : <<step.piece>>
                          \o ReplaceFrom(pattern, i + step.skip),
            ReplaceAt(pattern, i))

\* new RegExp(`^${regexPattern}$`)
regexPattern(pattern) ==
    << <<"^">> >> \o ReplaceFrom(pattern, 1) \o << <<"$">> >>

matchesPattern(path, pattern) ==
    At(LAMBDA regex : RegexTest(regex, path), regexPattern(pattern))

\* the results fixFile returns
Created == [modified |-> TRUE, action |-> "created"]
Updated == [modified |-> TRUE, action |-> "updated"]
Unchanged == [modified |-> FALSE, action |-> "unchanged"]
Skipped == [modified |-> FALSE, action |-> "skipped"]

\* Deno.writeTextFile whatever dryRun says
WriteAlways(file, newContent, dryRun, result) ==
    IF ~file.writable THEN [result |-> Skipped, file |-> file]
    ELSE [result |-> result, file |-> [file EXCEPT !.content = newContent]]

\* if (!dryRun) await Deno.writeTextFile(path, newContent), then the return:
\* the result and the file as fixFile leaves it; a write that throws is
\* caught and the file is reported as skipped
WriteUnlessDryRun(file, newContent, dryRun, result) ==
    IF dryRun THEN [result |-> result, file |-> file]
    ELSE IF ~file.writable THEN [result |-> Skipped, file |-> file]
    ELSE [result |-> result, file |-> [file EXCEPT !.content = newContent]]

\* yearRange?.firstYear ?? currentYear; file.years is what getFileYearRange
\* returns for the file, <<>> for null
FirstYear(file, currentYear) ==
    IF file.years = <<>> THEN currentYear ELSE file.years[1]

\* yearRange?.lastYear ?? currentYear
LastYear(file, currentYear) ==
    IF file.years = <<>> THEN currentYear ELSE file.years[2]

\* fixFile on a content without a valid header: the user is a sequence of no
\* or one contributor
CreateHeader(file, config, user, dryRun, currentYear) ==
    At(LAMBDA header :
          WriteUnlessDryRun(file,
                            replaceHeader(file.content, header, NullHeader),
                            dryRun, Created),
       generateHeader(config, user, FirstYear(file, currentYear),
                      LastYear(file, currentYear)))

\* parsed.contributors.some(c => c.email.toLowerCase() === ...)
hasCurrentUser(parsed, user) ==
    \E i \in 1..Len(parsed.contributors) :
        toLowerCase(parsed.contributors[i].email) = toLowerCase(user[1].email)

\* needsUpdate set by the year alone
needsUpdateYear(parsed, user, currentYear) == parsed.yearEnd < currentYear

needsUpdate(parsed, user, currentYear) ==
    \/ parsed.yearEnd < currentYear
    \/ Len(user) = 1 /\ ~hasCurrentUser(parsed, user)

\* fixFile on a content with a valid header
UpdateExisting(file, parsed, config, user, dryRun, currentYear) ==
    IF ~needsUpdate(parsed, user, currentYear)
    THEN [result |-> Unchanged, file |-> file]
    ELSE At(LAMBDA updatedHeader :
               WriteUnlessDryRun(file,
                                 replaceHeader(file.content, updatedHeader,
                                               parsed),
                                 dryRun, Updated),
            updateHeader(parsed, config, user, currentYear))

\* fixFile: hasValidHeader and parseHeader read the same parse of the content
\* (a content with a valid header never parses as null); a read that throws
\* is caught and the file is reported as skipped
fixFile(file, config, user, dryRun, currentYear) ==
    IF ~file.readable THEN [result |-> Skipped, file |-> file]
    ELSE At(LAMBDA parsed :
               IF ~(parsed.found /\ Len(parsed.contributors) > 0)
               THEN CreateHeader(file, config, user, dryRun, currentYear)
               ELSE UpdateExisting(file, parsed, config, user, dryRun,
                                   currentYear),
            parseHeader(file.content))

(***************************************************************************)
(* cli/commands/check.ts                                                   *)
(***************************************************************************)

checkFile(file, config, currentYear) ==
    IF ~file.readable
    THEN [valid |-> FALSE, issues |-> << <<"Failed to read file: ">> >>]
    ELSE IF ~hasValidHeader(file.content)
    THEN [valid |-> FALSE,
          issues |-> << <<"No valid copyright header found">> >>]
    ELSE validateHeader(file.content, config, currentYear)

\* results.filter((r) => r.valid).length
Passed(results) == Cardinality({i \in 1..Len(results) : results[i].valid})

\* results.filter((r) => !r.valid).length
Failed(results) == Cardinality({i \in 1..Len(results) : ~results[i].valid})

\* the summary runCheck returns
Summary(results) ==
    [totalFiles |-> Len(results),
     passedFiles |-> Passed(results),
     failedFiles |-> Failed(results),
     files |-> results]

\* the exit code 1 unless some file passed
ExitCodeOfPassed(summary) == IF summary.passedFiles = 0 THEN 1 ELSE 0

\* the exit code of the check command
ExitCode(summary) == IF summary.failedFiles > 0 THEN 1 ELSE 0

(***************************************************************************)
(* core/config.generated.ts: the configurations the engine is run with     *)
(***************************************************************************)

\* the fields of DEFAULT_CONFIG the header engine and the formatter read
DEFAULT_CONFIG ==
    [width |-> 100,
     separatorChar |-> <<"-">>,
     commentPrefix |-> <<"/", "/">>,
     nameColumn |-> 40,
     emailColumn |-> 65,
     licenseUrlColumn |-> 40,
     maintainerColumn |-> 75,
     spdxLicense |-> <<>>,
     licenseUrl |-> <<>>,
     maintainerEmail |-> <<>>,
     maxContributors |-> 3]

\* the defaults with a licence, as the tests resolve them
ConfigMIT ==
    [DEFAULT_CONFIG EXCEPT
        !.spdxLicense = <<"M", "I", "T">>,
        !.licenseUrl = <<"h", "t", "t", "p", "s", ":", "/", "/", "m", ".", "i">>,
        !.maintainerEmail = <<"m", "@", "x">>]

\* a narrow layout that shows one contributor and names no licence
ConfigOne ==
    [DEFAULT_CONFIG EXCEPT
        !.width = 60,
        !.separatorChar = <<"=">>,
        !.nameColumn = 30,
        !.emailColumn = 45,
        !.maxContributors = 1]

\* a layout for a language with another comment token, showing no contributor
ConfigHash ==
    [DEFAULT_CONFIG EXCEPT
        !.width = 40,
        !.separatorChar = <<"*">>,
        !.commentPrefix = <<"#">>,
        !.nameColumn = 20,
        !.emailColumn = 30,
        !.licenseUrlColumn = 34,
        !.maintainerColumn = 36,
        !.spdxLicense = <<"I", "S", "C">>,
        !.maxContributors = 0]

Configs == {ConfigMIT, ConfigOne, ConfigHash}

(***************************************************************************)
(* core/config.ts: resolveConfig.  An object is a function from its own    *)
(* keys to property values; a property value is <<v>> for the value v and  *)
(* <<>> for undefined, so that a key can be carried without a value.       *)
(***************************************************************************)

\* the fields of DEFAULT_CONFIG that select the contributors and the files
DEFAULT_SELECTION ==
    [contributorSelection |-> "commits",
     manualContributors |-> <<>>,
     include |-> <<"** /*.ts", "** /*.tsx", "** /*.js", "** /*.jsx">>,
     exclude |-> <<"** /node_modules/**", "** /dist/**", "** /build/**",
                   "** /coverage/**">>]

\* { ...a, ...b }: every own key of b overrides, whatever value it carries
ObjectSpread(a, b) ==
    [key \in DOMAIN a \cup DOMAIN b |->
        IF key \in DOMAIN b THEN b[key] ELSE a[key]]

\* a record as an object whose every key carries a value
ObjectOf(record) == [key \in DOMAIN record |-> <<record[key]>>]

\* all of DEFAULT_CONFIG as an object
DefaultObject ==
    ObjectSpread(ObjectOf(DEFAULT_CONFIG), ObjectOf(DEFAULT_SELECTION))

\* partial[key] ?? DEFAULT_CONFIG[key]
Coalesce(partial, key) ==
    IF key \in DOMAIN partial /\ partial[key] # <<>>
    THEN partial[key]
    ELSE DefaultObject[key]

\* the keys resolveConfig sets after the two spreads
CoalescedKeys == {"manualContributors", "include", "exclude"}

resolveConfig(partial) ==
    ObjectSpread(ObjectSpread(DefaultObject, partial),
                 [key \in CoalescedKeys |-> Coalesce(partial, key)])

(***************************************************************************)
(* The inputs: contributors, years and file contents                       *)
(***************************************************************************)

alice == [name |-> <<"a", "l">>, email |-> <<"a", "@", "x">>]

\* alice under the same email written in capitals
ALICE == [name |-> <<"A", "L">>, email |-> <<"A", "@", "X">>]

bob == [name |-> <<"B", "o", " ", "B">>, email |-> <<"b", "@", "x">>]

\* a contributor whose name ends one column before the default email column
longName ==
    [name |-> Repeat(<<"n">>, DEFAULT_CONFIG.emailColumn
                                - DEFAULT_CONFIG.nameColumn - 1),
     email |-> <<"n", "@", "x">>]

\* the longest contributor list handed to generateHeader
MaxList == 2

Authors == {alice, longName}

ContributorLists == UNION {[1..n -> Authors] : n \in 0..MaxList}

\* the contributors handed to updateHeader as newContributor (none is <<>>)
NewContributors == {<<>>, <<ALICE>>, <<bob>>}

CurrentYear == 2025

StartYears == {2020, CurrentYear + 1}
EndYears == {NoYear, CurrentYear}
UpdateYears == {NoYear, CurrentYear - 1, CurrentYear + 1}

Code == <<"x", "=", "1", "\n">>

\* code after blank lines and indentation
Indented == <<"\n", " ", "x", "\n">>

ShortSeparator == <<"/", "/", "-", "-", "-">>

\* a copyright line as a person types it: two spaces between the fields
TypedLine(start, name, email) ==
    <<"/", "/">> \o start \o <<" ", " ">> \o name \o <<" ", " ">> \o email

TypedCopyright(years, c) ==
    TypedLine(CopyrightText \o years, c.name, c.email)

TypedContinuation(c) ==
    TypedLine(Repeat(<<" ">>, MinIndent), c.name, c.email)

TypedSpdx == <<"/", "/">> \o SpdxText \o <<"M", "I", "T", " ">>

\* a header typed by hand with one contributor, 2020
TypedHeader ==
    Join(<<ShortSeparator,
           TypedCopyright(NumToString(2020), alice),
           TypedSpdx,
           ShortSeparator>>)

\* a header typed by hand with two contributors, the first with a long name
TypedHeaderTwo ==
    Join(<<ShortSeparator,
           TypedCopyright(NumToString(2020) \o <<"-">> \o NumToString(2024),
                          longName),
           TypedContinuation(bob),
           TypedSpdx,
           ShortSeparator>>)

\* a header typed by hand with a continuation line above two copyright lines
TypedHeaderMixed ==
    Join(<<ShortSeparator,
           TypedContinuation(bob),
           TypedCopyright(NumToString(2020), alice),
           TypedCopyright(NumToString(2022) \o <<"-">> \o NumToString(2024),
                          ALICE),
           TypedSpdx,
           ShortSeparator>>)

\* a header typed by hand with a continuation line and no copyright line
TypedContinued ==
    Join(<<ShortSeparator, TypedContinuation(bob), ShortSeparator>>)

\* two separators around an SPDX line: a header without a copyright line
TypedShell == Join(<<ShortSeparator, TypedSpdx, ShortSeparator>>)

Contents ==
    { <<>>,
      Code,
      Indented,
      ShortSeparator \o <<"\n">> \o Code,
      TypedShell \o <<"\n">> \o Code,
      TypedHeader,
      TypedHeader \o <<"\n">> \o Code,
      TypedHeader \o <<"\n", "\n">> \o Code,
      TypedHeaderMixed \o <<"\n">> \o Code,
      TypedContinued \o <<"\n">> \o Code,
      TypedHeaderTwo \o <<"\n", " ", "\n", "\n">> \o Code }

\* the longest content a header is generated for
MaxContentLen == 120

(***************************************************************************)
(* The state machine: one file and the header engine applied to it         *)
(***************************************************************************)

VARIABLES
    config,     \* the resolved configuration of the run
    content,    \* the content of the file
    header,     \* the header string generateHeader or updateHeader returned
    call,       \* the last operation and its arguments
    files,      \* the files the commands find, in the order they find them
    currentUser \* the git user of the repository (none is <<>>)

vars == <<config, content, header, call, files, currentUser>>

Init ==
    /\ config \in Configs
    /\ content \in Contents
    /\ header = <<>>
    /\ call = [op |-> "none"]
    /\ files = <<>>
    /\ currentUser = <<>>

\* a header is pending: generated or updated, not yet written to the file
Pending == call.op \in {"generateHeader", "updateHeader"}

\* generateHeader for a file that has no valid header
Generate ==
    /\ ~Pending
    /\ Len(content) <= MaxContentLen
    /\ ~hasValidHeader(content)
    /\ \E contributors \in ContributorLists, yearStart \in StartYears,
          yearEnd \in EndYears :
        /\ header' = generateHeader(config, contributors, yearStart, yearEnd)
        /\ call' = [op |-> "generateHeader", contributors |-> contributors,
                    yearStart |-> yearStart, yearEnd |-> yearEnd]
    /\ UNCHANGED <<config, content, files, currentUser>>

\* parseHeader, then updateHeader on what it found
Update ==
    /\ ~Pending
    /\ \E parsed \in {parseHeader(content)} :
        /\ parsed.found
        /\ \E newContributor \in NewContributors, updateYear \in UpdateYears :
            /\ header' = updateHeader(parsed, config, newContributor,
                                      updateYear)
            /\ call' = [op |-> "updateHeader",
                        existingHeader |-> parsed,
                        newContributor |-> newContributor,
                        updateYear |-> updateYear]
    /\ UNCHANGED <<config, content, files, currentUser>>

\* replaceHeader with the pending header: over the parsed header it was
\* updated from, or in front of a content that had no valid header
Replace ==
    /\ Pending
    /\ content' = replaceHeader(content, header,
                                IF call.op = "updateHeader"
                                THEN call.existingHeader
                                ELSE NullHeader)
    /\ call' = [op |-> "replaceHeader", pending |-> call]
    /\ UNCHANGED <<config, header, files, currentUser>>

\* parseHeader on the content of the file
Parse ==
    /\ ~Pending
    /\ call' = [op |-> "parseHeader", parsed |-> parseHeader(content)]
    /\ UNCHANGED <<config, content, header, files, currentUser>>

\* validateHeader on the content of the file
Validate ==
    /\ ~Pending
    /\ call' = [op |-> "validateHeader",
                result |-> validateHeader(content, config, CurrentYear)]
    /\ UNCHANGED <<config, content, header, files, currentUser>>

\* getYearRange on the content of the file
GetYearRange ==
    /\ ~Pending
    /\ call' = [op |-> "getYearRange", result |-> getYearRange(content)]
    /\ UNCHANGED <<config, content, header, files, currentUser>>

Next ==
    \/ Generate
    \/ Update
    \/ Replace
    \/ Parse
    \/ Validate
    \/ GetYearRange

Spec == Init /\ [][Next]_vars

(***************************************************************************)
(* The library functions called on their own                               *)
(***************************************************************************)

Paths ==
    { <<>>,
      <<"a">>,
      <<"x">>,
      <<"a", ".", "t">>,
      <<".", "t">>,
      <<"s", "/", "a", ".", "t">>,
      <<"a", "x", "t">>,
      <<"d", "/", "a", "/", "b", ".", "t">>,
      <<"x", "/", "d", "/", "a">>,
      <<"m", "d", "/", "a">>,
      <<"d", "/">>,
      <<"a", "/", "x">>,
      <<"a", "/", "b", "/", "x">>,
      <<"a", "/", "y", "x">>,
      <<"a", "/", "x", "b">>,
      <<"a", "/">>,
      <<"a", "b">>,
      <<"a", "/", "b">>,
      <<"a", "+", "(", "b", ")">>,
      <<"a", "/", "b", "/", "c", "/", "x">> }

Patterns ==
    { <<>>,
      <<"a">>,
      <<"a", ".", "t">>,
      <<"a", "+", "(", "b", ")">>,
      <<"*", ".", "t">>,
      <<"a", "/", "*">>,
      <<"?", ".", "t">>,
      <<"*", "*">>,
      <<"*", "*", "/", "x">>,
      <<"a", "/", "*", "*", "/", "x">>,
      <<"*", "*", "/", "d", "/", "*", "*">>,
      <<"a", "/", "*", "*">>,
      <<"a", "/", "*", "*", "b">>,
      <<"a", "*", "*", "b">> }

\* the longest list of paths handed to filterPaths
MaxPaths == 2

PathLists ==
    UNION {[1..n -> {<<"a", ".", "t">>, <<"s", "/", "a", ".", "t">>, <<"x", "/", "d", "/", "a">>}] :
              n \in 0..MaxPaths}

IncludeLists ==
    { <<>>,
      <<<<"*", ".", "t">>>>,
      <<<<"*", "*">>>>,
      <<<<"*", ".", "t">>, <<"*", "*", "/", "d", "/", "*", "*">>>> }

ExcludeLists ==
    { <<>>,
      <<<<"s", "/", "*">>>>,
      <<<<"*", "*", "/", "a", ".", "t">>, <<"x">>>> }

\* the longest list of columns handed to formatLine
MaxColumns == 2

ColumnContents == {<<>>, <<"a", "b">>, <<"a", "b", "c">>}
ColumnPositions == {0, 2, 3, 5}

Columns == [content : ColumnContents, position : ColumnPositions]

ColumnLists == UNION {[1..n -> Columns] : n \in 0..MaxColumns}

\* the widest separator asked for
MaxWidth == 6

FillStrings == {<<"-">>, <<"*">>, <<"=", "-">>}
Prefixes == {<<>>, <<"#">>, <<"/", "/">>}

\* the longest list of contributors handed to mergeContributors
MaxMerge == 2

MergeLists == UNION {[1..n -> {alice, ALICE, bob}] : n \in 0..MaxMerge}

\* the values the partial configurations give to the keys they set
Overrides ==
    [width |-> 80,
     separatorChar |-> <<"=">>,
     include |-> <<"**/*.rs">>,
     manualContributors |-> <<>>]

\* partial configurations: each key is absent, carried as undefined, or set
Partials ==
    UNION {{[key \in keys |->
                IF key \in unset THEN <<>> ELSE <<Overrides[key]>>] :
             unset \in SUBSET keys} :
           keys \in SUBSET DOMAIN Overrides}

\* the patterns handed to matchesPattern: those whose characters, left as
\* they are written, stand for themselves or for any character in a RegExp
FixPatterns ==
    {pattern \in Patterns :
        \A i \in 1..Len(pattern) : pattern[i] \notin RegexSpecial}

LibInit ==
    /\ config = DEFAULT_CONFIG
    /\ content = <<>>
    /\ header = <<>>
    /\ call = [op |-> "none"]
    /\ files = <<>>
    /\ currentUser = <<>>

\* no call is recorded
Idle == call.op = "none"

MatchesGlob ==
    /\ Idle
    /\ \E path \in Paths, pattern \in Patterns :
          call' = [op |-> "matchesGlob", path |-> path, pattern |-> pattern,
                   result |-> matchesGlob(path, pattern)]
    /\ UNCHANGED <<config, content, header, files, currentUser>>

FilterPaths ==
    /\ Idle
    /\ \E paths \in PathLists, includePatterns \in IncludeLists,
          excludePatterns \in ExcludeLists :
          call' = [op |-> "filterPaths", paths |-> paths,
                   includePatterns |-> includePatterns,
                   excludePatterns |-> excludePatterns,
                   result |-> filterPaths(paths, includePatterns,
                                          excludePatterns)]
    /\ UNCHANGED <<config, content, header, files, currentUser>>

FormatLine ==
    /\ Idle
    /\ \E columns \in ColumnLists :
          call' = [op |-> "formatLine", columns |-> columns,
                   result |-> formatLine(columns)]
    /\ UNCHANGED <<config, content, header, files, currentUser>>

GenerateSeparator ==
    /\ Idle
    /\ \E width \in 0..MaxWidth, char \in FillStrings, prefix \in Prefixes :
          call' = [op |-> "generateSeparator", width |-> width,
                   char |-> char, prefix |-> prefix,
                   result |-> generateSeparator(width, char, prefix)]
    /\ UNCHANGED <<config, content, header, files, currentUser>>

MergeContributors ==
    /\ Idle
    /\ \E existing \in MergeLists, newContributors \in MergeLists :
          call' = [op |-> "mergeContributors", existing |-> existing,
                   newContributors |-> newContributors,
                   result |-> mergeContributors(existing, newContributors)]
    /\ UNCHANGED <<config, content, header, files, currentUser>>

MatchesPattern ==
    /\ Idle
    /\ \E path \in Paths, pattern \in FixPatterns :
          call' = [op |-> "matchesPattern", path |-> path,
                   pattern |-> pattern,
                   result |-> matchesPattern(path, pattern)]
    /\ UNCHANGED <<config, content, header, files, currentUser>>

ResolveConfig ==
    /\ Idle
    /\ \E partial \in Partials :
          call' = [op |-> "resolveConfig", partial |-> partial,
                   result |-> resolveConfig(partial)]
    /\ UNCHANGED <<config, content, header, files, currentUser>>

\* the call returns: the next one can be made
Return ==
    /\ ~Idle
    /\ call' = [op |-> "none"]
    /\ UNCHANGED <<config, content, header, files, currentUser>>

LibNext ==
    \/ MatchesGlob
    \/ FilterPaths
    \/ FormatLine
    \/ GenerateSeparator
    \/ MergeContributors
    \/ ResolveConfig
    \/ MatchesPattern
    \/ Return

Lib == LibInit /\ [][LibNext]_vars

(***************************************************************************)
(* The fix and check commands run on the files of a repository             *)
(***************************************************************************)

\* a script: an interpreter directive above the code
Shebang == <<"#", "!", "/", "b", "i", "n", "/", "s", "h", "\n">> \o Code

\* a header typed by hand this year
TypedCurrent ==
    Join(<<ShortSeparator,
           TypedCopyright(NumToString(CurrentYear), alice),
           TypedSpdx,
           ShortSeparator>>)

\* a file that can be read and written; years is the year range git knows
\* for it, <<>> when git knows none
File(fileContent, years) ==
    [content |-> fileContent, readable |-> TRUE, writable |-> TRUE,
     years |-> years]

NewFile == File(Code, <<>>)
ScriptFile == File(Shebang, <<2020, CurrentYear - 1>>)
OldFile == File(TypedHeader \o <<"\n">> \o Code, <<2020, 2020>>)
CurrentFile ==
    File(TypedCurrent \o <<"\n", "\n">> \o Code, <<CurrentYear, CurrentYear>>)
Unreadable == [NewFile EXCEPT !.readable = FALSE]
ReadOnly == [NewFile EXCEPT !.writable = FALSE]

\* the most files a command finds
MaxFiles == 2

\* the files of the repositories with one file, and with several
FilesAlone ==
    {NewFile, ScriptFile, OldFile, CurrentFile, Unreadable, ReadOnly}
FilesTogether == {NewFile, CurrentFile, Unreadable}

FileLists ==
    {<<>>} \cup [1..1 -> FilesAlone]
           \cup UNION {[1..n -> FilesTogether] : n \in 2..MaxFiles}

\* what getCurrentGitUser returns: null is <<>>
GitUsers == {<<>>, <<ALICE>>, <<bob>>, <<longName>>}

\* the longest file the fix command is run on
MaxFileLen == 400

CliInit ==
    /\ config \in Configs
    /\ content = <<>>
    /\ header = <<>>
    /\ call = [op |-> "none", returned |-> TRUE, lastFix |-> <<>>]
    /\ files \in FileLists
    /\ currentUser \in GitUsers

\* no command is running
Ready == call.returned

\* the results of the last fix command that returned and was no dry run, as
\* a sequence of no or one list of results
LastFix ==
    IF call.op = "runFix" /\ ~call.dryRun THEN <<call.results>>
    ELSE call.lastFix

\* runFix up to its loop: the files are found, the git user is read
RunFix ==
    /\ Ready
    /\ \A i \in 1..Len(files) : Len(files[i].content) <= MaxFileLen
    /\ \E dryRun \in BOOLEAN :
          call' = [op |-> "runFix", dryRun |-> dryRun, before |-> files,
                   results |-> <<>>, returned |-> FALSE, lastFix |-> LastFix]
    /\ UNCHANGED <<config, content, header, files, currentUser>>

\* one iteration of the loop of runFix: fixFile on the next file
FixFile ==
    /\ call.op = "runFix"
    /\ ~call.returned
    /\ Len(call.results) < Len(files)
    /\ \E i \in {Len(call.results) + 1} :
          \E fixed \in {fixFile(files[i], config, currentUser, call.dryRun,
                                 CurrentYear)} :
              /\ files' = [files EXCEPT ![i] = fixed.file]
              /\ call' = [call EXCEPT !.results = Append(@, fixed.result)]
    /\ UNCHANGED <<config, content, header, currentUser>>

\* runFix returns its results
FixReturn ==
    /\ call.op = "runFix"
    /\ ~call.returned
    /\ Len(call.results) = Len(files)
    /\ call' = [call EXCEPT !.returned = TRUE]
    /\ UNCHANGED <<config, content, header, files, currentUser>>

\* runCheck up to Promise.all: checkFile is called on every file and each
\* call waits for its read
RunCheck ==
    /\ Ready
    /\ call' = [op |-> "runCheck",
                settled |-> <<>> \o [i \in 1..Len(files) |-> <<>>],
                order |-> <<>>, returned |-> FALSE, lastFix |-> LastFix]
    /\ UNCHANGED <<config, content, header, files, currentUser>>

\* the read of one file completes and its checkFile call settles
CheckFile ==
    /\ call.op = "runCheck"
    /\ ~call.returned
    /\ \E i \in 1..Len(files) :
          /\ call.settled[i] = <<>>
          /\ call' = [call EXCEPT
                         !.settled[i] =
                             <<checkFile(files[i], config, CurrentYear)>>,
                         !.order = Append(@, i)]
    /\ UNCHANGED <<config, content, header, files, currentUser>>

\* the results taken in the order in which the calls settled
InOrderSettled(settled, order) ==
    <<>> \o [k \in 1..Len(order) |-> settled[order[k]][1]]

\* Promise.all: the results in the order of the calls it was given
PromiseAll(settled, order) ==
    <<>> \o [i \in 1..Len(settled) |-> settled[i][1]]

\* every call has settled: runCheck returns the summary and the command
\* exits
CheckReturn ==
    /\ call.op = "runCheck"
    /\ ~call.returned
    /\ \A i \in 1..Len(files) : call.settled[i] # <<>>
    /\ \E summary \in {Summary(PromiseAll(call.settled, call.order))} :
          call' = [op |-> "runCheck", settled |-> call.settled,
                   order |-> call.order, returned |-> TRUE,
                   lastFix |-> call.lastFix, summary |-> summary,
                   exitCode |-> ExitCode(summary)]
    /\ UNCHANGED <<config, content, header, files, currentUser>>

CliNext ==
    \/ RunFix
    \/ FixFile
    \/ FixReturn
    \/ RunCheck
    \/ CheckFile
    \/ CheckReturn

Cli == CliInit /\ [][CliNext]_vars

(***************************************************************************)
(* Properties                                                              *)
(***************************************************************************)

\* the header was written in front of the content (no existing header given)
Prepended == call.op = "replaceHeader" /\ call.pending.op = "generateHeader"

\* the header was written over the parsed header of the content
Replaced == call.op = "replaceHeader" /\ call.pending.op = "updateHeader"

\* an updateHeader call that was given a newContributor
UpdatedWith == call.op = "updateHeader" /\ Len(call.newContributor) = 1

\* the newContributor of the call has the email of an existing contributor,
\* letters compared without case
EmailKnown ==
    \E i \in 1..Len(call.existingHeader.contributors) :
        toLowerCase(call.existingHeader.contributors[i].email)
            = toLowerCase(call.newContributor[1].email)

Min(a, b) == IF a < b THEN a ELSE b

\* the words "Copyright (c)" and "SPDX-License-Identifier:" as they are written
CopyrightMark == CopyrightWord \o <<" ">> \o ParenC
SpdxMark == SubSeq(SpdxText, 2, Len(SpdxText) - 1)

\* the number of blank lines the sequence of lines ls starts with
LeadingBlanks(ls) ==
    CHOOSE b \in 0..Len(ls) :
        /\ \A i \in 1..b : IsBlank(ls[i])
        /\ b = Len(ls) \/ ~IsBlank(ls[b + 1])

\* the year end the claim C3 gives the output of an updateHeader call
RaisedYearEnd(update) ==
    IF update.updateYear # NoYear
       /\ update.updateYear > update.existingHeader.yearEnd
    THEN update.updateYear
    ELSE update.existingHeader.yearEnd

\* C1: parseHeader of a header generateHeader made from one or more
\* contributors is non-null, has the year range the header was generated
\* with, and has exactly the first min(N, maxContributors) contributors, in
\* order.
RoundTrip ==
    call.op = "generateHeader" /\ Len(call.contributors) >= 1 =>
        \E parsed \in {parseHeader(header)} :
            /\ parsed.found
            /\ parsed.yearStart = call.yearStart
            /\ parsed.yearEnd = (IF call.yearEnd = NoYear THEN call.yearStart
                                 ELSE call.yearEnd)
            /\ parsed.contributors =
                  SubSeq(call.contributors, 1,
                         Min(Len(call.contributors), config.maxContributors))

\* C2: validateHeader on a header generateHeader just made under the same
\* configuration, for one or more contributors and a start year that is not
\* in the future, is valid and reports no issue.
FreshHeaderValid ==
    /\ call.op = "generateHeader"
    /\ Len(call.contributors) >= 1
    /\ call.yearStart <= CurrentYear
    => \E result \in {validateHeader(header, config, CurrentYear)} :
          result.valid /\ result.issues = <<>>

\* C3: the copyright line of the output of updateHeader carries the start
\* year of the parsed header and the year end raised to updateYear only when
\* updateYear is greater; and an update of the file an earlier update was
\* written to has the same start year and no lower a year end.
YearEndNeverLowered ==
    [][ call'.op = "updateHeader" =>
          /\ \E lines \in {Split(header')} :
                Len(lines) > 3 =>
                    Includes(lines[2],
                             CopyrightMark \o <<" ">>
                             \o YearPart(call'.existingHeader.yearStart,
                                         RaisedYearEnd(call')))
          /\ Replaced =>
                /\ call'.existingHeader.yearStart
                      = call.pending.existingHeader.yearStart
                /\ RaisedYearEnd(call') >= RaisedYearEnd(call.pending) ]_vars

\* C4 as stated: the output of updateHeader for a newContributor with an
\* unknown email has a line for every existing contributor, in order, and
\* then a line for the new contributor.
NewContributorListed ==
    UpdatedWith /\ ~EmailKnown =>
        \E lines \in {Split(header)},
           list \in {call.existingHeader.contributors \o call.newContributor} :
            /\ Len(lines) = Len(list) + 3
            /\ \A i \in 1..Len(list) :
                  /\ Includes(lines[i + 1], list[i].name)
                  /\ Includes(lines[i + 1], list[i].email)

\* C4: the output of updateHeader for a newContributor with an unknown email
\* has a line for each of the first maxContributors entries of the existing
\* contributors followed by the new one, in order: the new contributor has a
\* line when fewer than maxContributors contributors exist and none otherwise.
NewContributorWithinLimit ==
    UpdatedWith /\ ~EmailKnown =>
        \E lines \in {Split(header)},
           list \in {call.existingHeader.contributors \o call.newContributor} :
            LET k == Min(Len(list), config.maxContributors)
                Listed(c) == \E i \in 2..(Len(lines) - 2) :
                                /\ Includes(lines[i], c.name)
                                /\ Includes(lines[i], c.email)
            IN  /\ Len(lines) = k + 3
                /\ \A i \in 1..k :
                      /\ Includes(lines[i + 1], list[i].name)
                      /\ Includes(lines[i + 1], list[i].email)
                /\ Listed(call.newContributor[1]) <=> Len(list) <= config.maxContributors

\* updateHeader left a new contributor out of a header that was full
NewContributorCutOff ==
    /\ UpdatedWith
    /\ ~EmailKnown
    /\ config.maxContributors >= 1
    /\ Len(call.existingHeader.contributors) >= config.maxContributors

\* C5 as stated: the output of updateHeader for a newContributor with a
\* known email has as many contributor lines as the parsed header has
\* contributors.
KnownEmailKeepsCount ==
    UpdatedWith /\ EmailKnown =>
        Len(Split(header)) - 3 = Len(call.existingHeader.contributors)

\* C5: the output of updateHeader for a newContributor whose email is known
\* in any letter case has a line for each of the first maxContributors
\* existing contributors and no other contributor line: no line is added.
KnownEmailAddsNoLine ==
    UpdatedWith /\ EmailKnown =>
        \E lines \in {Split(header)},
           list \in {call.existingHeader.contributors} :
            LET k == Min(Len(list), config.maxContributors)
            IN  /\ Len(lines) - 3 = k
                /\ \A i \in 1..k :
                      /\ Includes(lines[i + 1], list[i].name)
                      /\ Includes(lines[i + 1], list[i].email)

\* updateHeader was given an email that is known in another letter case
KnownInOtherCase ==
    /\ UpdatedWith
    /\ EmailKnown
    /\ \A i \in 1..Len(call.existingHeader.contributors) :
          call.existingHeader.contributors[i].email
              # call.newContributor[1].email

\* C6: the output of generateHeader for N contributors, k the smaller of N
\* and maxContributors, is k + 3 lines without a trailing newline: the
\* separator, a line with "Copyright (c)", the year text and contributor 1,
\* a line without "Copyright (c)" for each of the contributors 2..k in order,
\* the only SPDX line, and the separator again; a contributor beyond k who
\* is not among the first k is nowhere in it.
GeneratedLayout ==
    call.op = "generateHeader" =>
        \E lines \in {Split(header)},
           k \in {Min(Len(call.contributors), config.maxContributors)} :
            LET separator ==
                    config.commentPrefix
                    \o Repeat(config.separatorChar,
                              config.width - Len(config.commentPrefix))
            IN  /\ Len(lines) = k + 3
                /\ header[Len(header)] # "\n"
                /\ lines[1] = separator
                /\ lines[k + 3] = separator
                /\ k >= 1 =>
                      Includes(lines[2],
                               CopyrightMark \o <<" ">>
                               \o YearPart(call.yearStart, call.yearEnd))
                /\ \A i \in 1..k :
                      /\ Includes(lines[i + 1], call.contributors[i].name)
                      /\ Includes(lines[i + 1], call.contributors[i].email)
                      /\ i >= 2 => ~Includes(lines[i + 1], CopyrightMark)
                /\ \A i \in 1..Len(lines) :
                      Includes(lines[i], SpdxMark) <=> i = k + 2
                /\ \A i \in (k + 1)..Len(call.contributors) :
                      (\A j \in 1..k :
                          call.contributors[j] # call.contributors[i])
                      => ~Includes(header, call.contributors[i].email)

\* generateHeader was given more contributors than the header shows
GeneratedTruncated ==
    /\ call.op = "generateHeader"
    /\ config.maxContributors >= 1
    /\ Len(call.contributors) > config.maxContributors

\* C7 as stated: after replaceHeader over an existing header the new header
\* is followed by one blank line and the line after that is not blank.
ExactlyOneBlankLine ==
    [][ Replaced' =>
          \E new \in {Split(content')}, made \in {Split(header)} :
              LET rest == SubSeq(new, Len(made) + 1, Len(new))
              IN  /\ SubSeq(new, 1, Len(made)) = made
                  /\ Len(rest) >= 1
                  /\ IsBlank(rest[1])
                  /\ Len(rest) >= 2 => ~IsBlank(rest[2]) ]_vars

\* C7: replaceHeader over an existing header returns the new header and then
\* the lines that followed the old header, with one empty line put before
\* them when the first of them is not blank or there is none: a blank line
\* follows the new header, and code that followed the old header after b
\* blank lines follows the new one after b blank lines, or after one when b
\* is 0.
BlankLineEnsured ==
    [][ Replaced' =>
          \E old \in {Split(content)}, new \in {Split(content')},
             made \in {Split(header)} :
              LET after == SubSeq(old, call.existingHeader.endLine + 1,
                                  Len(old))
                  rest == SubSeq(new, Len(made) + 1, Len(new))
              IN  /\ SubSeq(new, 1, Len(made)) = made
                  /\ Len(rest) >= 1
                  /\ IsBlank(rest[1])
                  /\ rest = IF after = <<>> THEN << <<>>, <<>> >>
                            ELSE IF IsBlank(after[1]) THEN after
                            ELSE << <<>> >> \o after
                  /\ LeadingBlanks(after) < Len(after) =>
                        LeadingBlanks(rest)
                            = IF LeadingBlanks(after) = 0 THEN 1
                              ELSE LeadingBlanks(after) ]_vars

\* a header was written over the old one with one empty line before the code
ReplacedBeforeCode ==
    /\ Replaced
    /\ From(content, Len(header) + 1) = <<"\n", "\n">> \o Code

\* C8: after replaceHeader over the header parsed from the content the lines
\* that followed the old closing separator are the last lines of the result,
\* unchanged and in order, and before them are only the lines of the new
\* header and empty lines; after replaceHeader without an existing header
\* the content without its leading white space ends the result.
CodePreserved ==
    [][ /\ Replaced' =>
              \E old \in {Split(content)}, new \in {Split(content')},
                 made \in {Split(header)} :
                  LET after == SubSeq(old, call.existingHeader.endLine + 1,
                                      Len(old))
                      tail == Len(new) - Len(after)
                  IN  /\ tail >= Len(made)
                      /\ SubSeq(new, tail + 1, Len(new)) = after
                      /\ SubSeq(new, 1, Len(made)) = made
                      /\ \A i \in (Len(made) + 1)..tail : new[i] = <<>>
        /\ Prepended' =>
              \E kept \in {trimStart(content)} :
                  /\ Len(content') >= Len(kept)
                  /\ From(content', Len(content') - Len(kept) + 1) = kept
      ]_vars

\* a header was written over the old one above lines of code
ReplacedAboveCode ==
    /\ Replaced
    /\ Includes(From(content, Len(header) + 1), <<"x", "=", "1">>)

\* C9: replaceHeader without an existingHeader returns newHeader, then exactly
\* two newline characters (one empty line), then the content with only its
\* leading white space stripped.
PrependStripsLeadingSpaceOnly ==
    [][ Prepended' =>
          LET n == Len(header)
              rest == From(content', n + 3)
              cut == Len(content) - Len(rest)
          IN  /\ Len(content') >= n + 2
              /\ SubSeq(content', 1, n) = header
              /\ content'[n + 1] = "\n"
              /\ content'[n + 2] = "\n"
              /\ rest = <<>> \/ ~IsSpace(rest[1])
              /\ cut >= 0
              /\ rest = From(content, cut + 1)
              /\ \A i \in 1..cut : IsSpace(content[i]) ]_vars

\* a header was prepended to a content that holds code
PrependedToCode == Prepended /\ Len(content) > Len(header) + 2

\* C10: parseHeader returns null exactly when the content is empty, its first
\* line is no separator line, or no later line is one; otherwise startLine is
\* 1, endLine is the line of the first later separator, and raw is the text
\* of the content from its start through that line.
ParseNullExactly ==
    call.op = "parseHeader" =>
        LET lines == Split(content)
            closers == {i \in 2..Len(lines) : IsSeparator(lines[i])}
            parsed == call.parsed
        IN  /\ ~parsed.found <=>
                  \/ content = <<>>
                  \/ ~IsSeparator(lines[1])
                  \/ closers = {}
            /\ parsed.found =>
                  /\ parsed.startLine = 1
                  /\ parsed.endLine > parsed.startLine
                  /\ parsed.endLine \in closers
                  /\ \A i \in closers : parsed.endLine <= i
                  /\ parsed.raw = SubSeq(content, 1, Len(parsed.raw))
                  /\ Split(parsed.raw) = SubSeq(lines, 1, parsed.endLine)

\* a header was parsed out of a content that goes on after it
ParsedWithCodeAfter ==
    /\ call.op = "parseHeader"
    /\ call.parsed.found
    /\ Len(call.parsed.raw) < Len(content)

\* the issue has the part `part`
HasPart(issue, part) == \E i \in 1..Len(issue) : issue[i] = part

\* the number of issues of the list that start with `first` and have `part`
IssueCount(issues, first, part) ==
    Cardinality({i \in 1..Len(issues) :
                    issues[i][1] = first /\ HasPart(issues[i], part)})

\* 1 when the check is violated, 0 when it is not
Violated(check) == IF check THEN 1 ELSE 0

\* C11: validateHeader returns valid = false and the one issue "No valid
\* header found" when parseHeader returns null; otherwise its issues are one
\* for each violated check and none for any other: start year in the future,
\* end year in the future, end year before start year, a non-empty
\* config.spdxLicense unlike the parsed one (the text has "does not match"),
\* no contributors; and valid is true exactly when there is no issue.
IssuesAreViolatedChecks ==
    call.op = "validateHeader" =>
        \E parsed \in {parseHeader(content)}, issues \in {call.result.issues} :
            /\ call.result.valid <=> issues = <<>>
            /\ ~parsed.found =>
                  issues = << <<"No valid header found">> >>
            /\ parsed.found =>
                  LET startLate == Violated(parsed.yearStart > CurrentYear)
                      endLate == Violated(parsed.yearEnd > CurrentYear)
                      endEarly == Violated(parsed.yearEnd < parsed.yearStart)
                      license == Violated(config.spdxLicense # <<>>
                                          /\ parsed.spdxLicense
                                                # config.spdxLicense)
                      nobody == Violated(Len(parsed.contributors) = 0)
                  IN  /\ IssueCount(issues, "Year ", " is in the future")
                            = startLate
                      /\ IssueCount(issues, "End year ", " is in the future")
                            = endLate
                      /\ IssueCount(issues, "End year ",
                                    " is before start year ") = endEarly
                      /\ IssueCount(issues, "SPDX license '",
                                    "' does not match config '") = license
                      /\ IssueCount(issues, "No contributors found in header",
                                    "No contributors found in header") = nobody
                      /\ Len(issues) = startLate + endLate + endEarly
                                        + license + nobody

\* validateHeader found more than one check violated
SeveralIssues ==
    call.op = "validateHeader" /\ Len(call.result.issues) >= 2

\* the lines of the header that COPYRIGHT_REGEX matches; closing is the line
\* of the closing separator
CopyrightLines(lines, closing) ==
    {i \in 2..(closing - 1) : CopyrightMatch(lines[i]).matched}

\* the lines of the header that name a contributor
ContributorLines(lines, closing) ==
    CopyrightLines(lines, closing)
    \cup {i \in 2..(closing - 1) : ContributorMatch(lines[i]).matched}

\* the contributors the lines of the set `named` name, in document order
InDocumentOrder(lines, named) ==
    <<>> \o [k \in 1..Cardinality(named) |->
               LET i == CHOOSE x \in named :
                            Cardinality({y \in named : y < x}) = k - 1
                   copyright == CopyrightMatch(lines[i])
                   continuation == ContributorMatch(lines[i])
               IN  IF copyright.matched
                   THEN [name |-> copyright.name, email |-> copyright.email]
                   ELSE [name |-> continuation.name,
                         email |-> continuation.email]]

\* the header was parsed with the years of the copyright line `line`
YearsOf(parsed, line) ==
    \E copyright \in {CopyrightMatch(line)} :
        /\ parsed.yearStart = parseInt(copyright.year1)
        /\ parsed.yearEnd = IF copyright.year2 # <<>>
                            THEN parseInt(copyright.year2)
                            ELSE parseInt(copyright.year1)

Literal(s) == \A i \in 1..Len(s) : s[i] \notin {"*", "?"}

\* the number of "/" in s
Separators(s) == Cardinality({i \in 1..Len(s) : s[i] = "/"})

StartsWith(s, lit) == HasAt(s, 1, lit)

EndsWith(s, lit) == HasAt(s, Len(s) - Len(lit) + 1, lit)

\* matchesGlob was called with a pattern that is literal but for one "*"
OneStar ==
    /\ call.op = "matchesGlob"
    /\ Cardinality({i \in 1..Len(call.pattern) : call.pattern[i] = "*"}) = 1
    /\ \A i \in 1..Len(call.pattern) : call.pattern[i] # "?"

\* C13: a pattern without "**" matches only paths with as many "/" as it has
\* itself, and a pattern that is literal but for one "*" matches exactly the
\* paths that start with the text before the "*", end with the text after
\* it and have no "/" (and possibly nothing) between the two.
StarStaysInSegment ==
    call.op = "matchesGlob" =>
        \E path \in {call.path}, pattern \in {call.pattern} :
            /\ (\A i \in 1..(Len(pattern) - 1) :
                    ~(pattern[i] = "*" /\ pattern[i + 1] = "*"))
               /\ call.result
               => Separators(path) = Separators(pattern)
            /\ OneStar =>
                  \E star \in {CHOOSE i \in 1..Len(pattern) : pattern[i] = "*"} :
                      LET before == SubSeq(pattern, 1, star - 1)
                          after == From(pattern, star + 1)
                      IN  call.result <=>
                            /\ Len(path) >= Len(before) + Len(after)
                            /\ StartsWith(path, before)
                            /\ EndsWith(path, after)
                            /\ \A k \in (Len(before) + 1)..(Len(path) - Len(after)) :
                                  path[k] # "/"

\* a "*" was tried on a path that has a "/" where only the "*" could match
StarMetSeparator ==
    /\ OneStar
    /\ ~call.result
    /\ \E star \in {CHOOSE i \in 1..Len(call.pattern) : call.pattern[i] = "*"} :
          /\ Len(call.path) >= Len(call.pattern) - 1
          /\ StartsWith(call.path, SubSeq(call.pattern, 1, star - 1))
          /\ EndsWith(call.path, From(call.pattern, star + 1))

GlobstarSlash == <<"*", "*", "/">>
SlashGlobstar == <<"/", "*", "*">>
SlashGlobstarSlash == <<"/", "*", "*", "/">>

\* C14: "**/X" matches X and every path that ends with "/X"; "P/**/X"
\* matches "P/X" and every path that starts with "P/" and ends with "/X"
\* around complete segments; "**/S/**" matches the paths that have the
\* segment S followed by "/", at the start or after a "/", and so never a
\* path where S only ends a longer segment; "P/**" matches the paths that
\* start with "P/", and "**" every path (P, X, S without wild cards).
GlobstarWholeSegments ==
    call.op = "matchesGlob" =>
        \E path \in {call.path}, pattern \in {call.pattern} :
            /\ StartsWith(pattern, GlobstarSlash) /\ Literal(From(pattern, 4))
               => (call.result <=>
                     \/ path = From(pattern, 4)
                     \/ EndsWith(path, <<"/">> \o From(pattern, 4)))
            /\ \A k \in 2..Len(pattern) :
                  /\ HasAt(pattern, k, SlashGlobstarSlash)
                  /\ Literal(SubSeq(pattern, 1, k - 1))
                  /\ Literal(From(pattern, k + 4))
                  => LET P == SubSeq(pattern, 1, k - 1)
                         X == From(pattern, k + 4)
                     IN  call.result <=>
                            \/ path = P \o <<"/">> \o X
                            \/ /\ Len(path) >= Len(P) + Len(X) + 2
                               /\ StartsWith(path, P \o <<"/">>)
                               /\ EndsWith(path, <<"/">> \o X)
            /\ /\ Len(pattern) >= 7
               /\ StartsWith(pattern, GlobstarSlash)
               /\ EndsWith(pattern, SlashGlobstar)
               /\ Literal(SubSeq(pattern, 4, Len(pattern) - 3))
               => LET S == SubSeq(pattern, 4, Len(pattern) - 3)
                  IN  call.result <=>
                        \/ StartsWith(path, S \o <<"/">>)
                        \/ Includes(path, <<"/">> \o S \o <<"/">>)
            /\ /\ Len(pattern) >= 4
               /\ EndsWith(pattern, SlashGlobstar)
               /\ Literal(SubSeq(pattern, 1, Len(pattern) - 3))
               => (call.result <=>
                     StartsWith(path, SubSeq(pattern, 1, Len(pattern) - 2)))
            /\ pattern = <<"*", "*">> => call.result

\* "**/S/**" was tried on a path where S ends a longer first segment
GlobstarMetPartialSegment ==
    /\ call.op = "matchesGlob"
    /\ Len(call.pattern) >= 7
    /\ StartsWith(call.pattern, GlobstarSlash)
    /\ EndsWith(call.pattern, SlashGlobstar)
    /\ Includes(call.path,
                SubSeq(call.pattern, 4, Len(call.pattern) - 3) \o <<"/">>)
    /\ ~call.result

\* C15: a pattern P "**" Q, P and Q without wild cards, whose "**" does not
\* stand between "/" or the pattern start and "/" or the pattern end, matches
\* exactly the paths that start with P and end with Q after it: the "**"
\* matches any string and the characters of Q stay part of the match.
UnboundedGlobstarMatchesAnything ==
    call.op = "matchesGlob" =>
        \E path \in {call.path}, pattern \in {call.pattern} :
            \A k \in 1..(Len(pattern) - 1) :
                LET P == SubSeq(pattern, 1, k - 1)
                    Q == From(pattern, k + 2)
                    bounded == /\ P = <<>> \/ P[Len(P)] = "/"
                               /\ Q = <<>> \/ Q[1] = "/"
                IN  /\ pattern[k] = "*"
                    /\ pattern[k + 1] = "*"
                    /\ Literal(P)
                    /\ Literal(Q)
                    /\ ~bounded
                    => (call.result <=>
                          /\ Len(path) >= Len(P) + Len(Q)
                          /\ StartsWith(path, P)
                          /\ EndsWith(path, Q))

\* C16: a pattern without "*" and "?" matches a path exactly when the path
\* is the pattern, character for character; the empty pattern matches the
\* empty path only.
LiteralPatternMatchesItself ==
    call.op = "matchesGlob" /\ Literal(call.pattern) =>
        (call.result <=> call.path = call.pattern)

\* a literal pattern with a dot was tried on a path that differs at the dot
LiteralDotTried ==
    /\ call.op = "matchesGlob"
    /\ Literal(call.pattern)
    /\ Len(call.path) = Len(call.pattern)
    /\ \E i \in 1..Len(call.pattern) :
          /\ call.pattern[i] = "."
          /\ call.path[i] # "."
          /\ \A j \in 1..Len(call.pattern) :
                j # i => call.path[j] = call.pattern[j]

\* C17: filterPaths returns the paths, in input order, that match an include
\* pattern and no exclude pattern.
FilterKeepsIncludedNotExcluded ==
    call.op = "filterPaths" =>
        \E paths \in {call.paths}, result \in {call.result} :
            LET Kept(i) ==
                    /\ \E n \in 1..Len(call.includePatterns) :
                          matchesGlob(paths[i], call.includePatterns[n])
                    /\ \A n \in 1..Len(call.excludePatterns) :
                          ~matchesGlob(paths[i], call.excludePatterns[n])
                kept == {i \in 1..Len(paths) : Kept(i)}
            IN  /\ Len(result) = Cardinality(kept)
                /\ \A k \in 1..Len(result) :
                      result[k] =
                          paths[CHOOSE i \in kept :
                                    Cardinality({j \in kept : j < i}) = k - 1]
                /\ call.includePatterns = <<>> => result = <<>>

\* filterPaths dropped a path that an include pattern matches
ExcludedThoughIncluded ==
    /\ call.op = "filterPaths"
    /\ Len(call.result) < Len(call.paths)
    /\ \A i \in 1..Len(call.paths) :
          \E n \in 1..Len(call.includePatterns) :
              matchesGlob(call.paths[i], call.includePatterns[n])

\* where the text of the first k sorted columns ends when each column starts
\* at its position, or one space after the text before it when that text has
\* passed the position (or also when it has just reached it and `reached`
\* is TRUE)
RECURSIVE EndOfColumn(_, _, _)
EndOfColumn(sorted, k, reached) ==
    IF k = 0 THEN 0
    ELSE At(LAMBDA cursor :
               LET position == sorted[k].position
                   met == cursor > position \/ (reached /\ cursor = position)
               IN  Len(sorted[k].content)
                   + (IF ~met THEN position
                      ELSE IF cursor > 0 THEN cursor + 1
                      ELSE cursor),
            EndOfColumn(sorted, k - 1, reached))

\* the result of the formatLine call is the contents of the columns in
\* ascending position order, each ending where EndOfColumn says, with
\* spaces and nothing else between them
LaidOut(reached) ==
    \E sorted \in {SortColumns(call.columns)}, result \in {call.result} :
        LET End(k) == EndOfColumn(sorted, k, reached)
            inContent == UNION {(End(k) - Len(sorted[k].content) + 1)..End(k) :
                                   k \in 1..Len(sorted)}
        IN  /\ \A k \in 1..(Len(sorted) - 1) :
                  sorted[k].position <= sorted[k + 1].position
            /\ Len(result) = End(Len(sorted))
            /\ \A k \in 1..Len(sorted) :
                  SubSeq(result, End(k) - Len(sorted[k].content) + 1, End(k))
                      = sorted[k].content
            /\ \A i \in 1..Len(result) : i \notin inContent => result[i] = " "

\* C18 as stated: formatLine starts each column at its position unless the
\* text emitted before it has passed the position, and then one space after
\* that text.
ColumnsAtPositionUnlessPassed ==
    call.op = "formatLine" => LaidOut(FALSE)

\* C18: formatLine emits the columns in ascending position order, each at its
\* position after padding with spaces, unless text was emitted before it that
\* has reached or passed the position: then the content follows that text
\* after exactly one space.  No content is cut or written over, and no
\* columns give the empty string.
ColumnsAtPositionUnlessReached ==
    call.op = "formatLine" =>
        /\ LaidOut(TRUE)
        /\ call.columns = <<>> => call.result = <<>>

\* formatLine was given a column that starts where the text before it ends
ColumnMeetsText ==
    /\ call.op = "formatLine"
    /\ Len(call.columns) = 2
    /\ call.columns[1].content # <<>>
    /\ call.columns[2].content # <<>>
    /\ call.columns[1].position + Len(call.columns[1].content)
          = call.columns[2].position

\* C19: generateSeparator with a fill string of one or more characters
\* returns the prefix alone when width is at most the length of the prefix,
\* and otherwise a string of length width that starts with the prefix.
SeparatorHasWidth ==
    call.op = "generateSeparator" /\ Len(call.char) >= 1 =>
        /\ StartsWith(call.result, call.prefix)
        /\ call.width > Len(call.prefix) => Len(call.result) = call.width
        /\ call.width <= Len(call.prefix) => call.result = call.prefix

\* C20: mergeContributors returns the entries of existing followed by those
\* of newContributors, in order, without every entry whose email is that of
\* an earlier entry, letters compared without case: no two entries of the
\* result have such emails and the first entry of each email is kept.
MergeKeepsFirstOfEachEmail ==
    call.op = "mergeContributors" =>
        \E all \in {call.existing \o call.newContributors},
           result \in {call.result} :
            LET kept == {i \in 1..Len(all) :
                            \A j \in 1..(i - 1) :
                                toLowerCase(all[j].email)
                                    # toLowerCase(all[i].email)}
            IN  /\ Len(result) = Cardinality(kept)
                /\ \A k \in 1..Len(result) :
                      result[k] =
                          all[CHOOSE i \in kept :
                                  Cardinality({j \in kept : j < i}) = k - 1]
                /\ \A i, j \in 1..Len(result) :
                      i # j => toLowerCase(result[i].email)
                                  # toLowerCase(result[j].email)

\* mergeContributors was given the same email in two letter cases
MergedAcrossCase ==
    /\ call.op = "mergeContributors"
    /\ Len(call.existing) >= 1
    /\ \E i \in 1..Len(call.newContributors) :
          /\ call.newContributors[i].email # call.existing[1].email
          /\ toLowerCase(call.newContributors[i].email)
                = toLowerCase(call.existing[1].email)

\* C21: resolveConfig returns a fully populated configuration for every
\* partial configuration: each field carries the partial's value when the
\* partial supplies one and the default otherwise, and no field is undefined,
\* also when the partial carries a key whose value is undefined.
ResolvedFullyPopulated ==
    call.op = "resolveConfig" =>
        \A key \in DOMAIN DefaultObject :
            /\ call.result[key] # <<>>
            /\ call.result[key] =
                  IF key \in DOMAIN call.partial /\ call.partial[key] # <<>>
                  THEN call.partial[key]
                  ELSE DefaultObject[key]

\* C29: the file matcher of the fix command agrees with the glob matcher of
\* the core that the check command uses: for every path and pattern,
\* matchesPattern(path, pattern) equals matchesGlob(path, pattern).
MatchersAgree ==
    call.op = "matchesPattern" =>
        call.result = matchesGlob(call.path, call.pattern)

\* C30 as stated: the header predicates are consistent for every content and
\* configuration: validateHeader(content, cfg).valid implies
\* hasValidHeader(content), hasValidHeader(content) implies that
\* parseHeader(content) is non-null with at least one contributor, and
\* hasValidHeader(content) implies that getYearRange(content) is non-null.
PredicatesConsistent ==
    /\ call.op = "validateHeader" /\ call.result.valid
          => hasValidHeader(content)
    /\ call.op = "parseHeader" /\ hasValidHeader(content)
          => call.parsed.found /\ Len(call.parsed.contributors) >= 1
    /\ call.op = "getYearRange" /\ hasValidHeader(content)
          => call.result.found

\* C30: validateHeader(content, cfg).valid implies hasValidHeader(content);
\* hasValidHeader(content) implies that parseHeader(content) is non-null with
\* at least one contributor; getYearRange(content) is non-null exactly when
\* parseHeader(content) is non-null with a start year other than 0, and then
\* carries the parsed years, so that a valid header without a copyright line
\* has no year range.
PredicatesConsistentWithYears ==
    /\ call.op = "validateHeader" /\ call.result.valid
          => hasValidHeader(content)
    /\ call.op = "parseHeader" /\ hasValidHeader(content)
          => call.parsed.found /\ Len(call.parsed.contributors) >= 1
    /\ call.op = "getYearRange"
          => \E parsed \in {parseHeader(content)} :
                /\ call.result.found
                      <=> parsed.found /\ parsed.yearStart # 0
                /\ call.result.found
                      => /\ call.result.yearStart = parsed.yearStart
                         /\ call.result.yearEnd = parsed.yearEnd

\* getYearRange found no years in a content that has a valid header
ValidHeaderWithoutYears ==
    /\ call.op = "getYearRange"
    /\ hasValidHeader(content)
    /\ ~call.result.found

\* a check command has returned after a fix command that wrote its changes
CheckedAfterFix ==
    /\ call.op = "runCheck"
    /\ call.returned
    /\ call.lastFix # <<>>

\* C22: after the fix command has processed a file (not in a dry run), the
\* check command on that same file passes with exit code 0, for every initial
\* file content, git user and configuration.
CheckPassesAfterFix ==
    CheckedAfterFix =>
        \E fixed \in {call.lastFix[1]} :
            /\ \A i \in 1..Len(files) :
                  fixed[i].action # "skipped" => call.summary.files[i].valid
            /\ (\A i \in 1..Len(files) : fixed[i].action # "skipped")
                  => call.exitCode = 0

\* C23: fix on a file whose first line is an interpreter directive ("#!...")
\* keeps that line as the first line of the file and inserts the generated
\* header after it.
ShebangStaysFirst ==
    call.op = "runFix" /\ ~call.dryRun =>
        \A i \in 1..Len(call.results) :
            /\ StartsWith(call.before[i].content, <<"#", "!">>)
            /\ call.results[i].modified
            => \E before \in {Split(call.before[i].content)},
                  after \in {Split(files[i].content)} :
                    /\ after[1] = before[1]
                    /\ Len(after) > Len(before)

\* C24: in a dry run fix never writes: during and after runFix with dryRun
\* set every file is as it was before the run, whatever action (created,
\* updated, unchanged, skipped) is reported for it.
DryRunNeverWrites ==
    call.op = "runFix" /\ call.dryRun => files = call.before

\* a dry run has returned and reported a file as created or updated
DryRunReportedChange ==
    /\ call.op = "runFix"
    /\ call.dryRun
    /\ call.returned
    /\ \E i \in 1..Len(call.results) : call.results[i].modified

\* the file fails the check: it cannot be read, has no valid header, or its
\* header has a validation issue
FileFails(file) ==
    \/ ~file.readable
    \/ ~hasValidHeader(file.content)
    \/ Len(validateHeader(file.content, config, CurrentYear).issues) > 0

\* C25: the check command returns exit code 1 iff at least one checked file
\* failed (no valid header, a validation issue, or an unreadable file) and 0
\* otherwise; in its summary passedFiles + failedFiles = totalFiles = the
\* number of per-file results.
ExitCodeCountsFailures ==
    call.op = "runCheck" /\ call.returned =>
        \E summary \in {call.summary} :
            /\ call.exitCode \in {0, 1}
            /\ call.exitCode = 1
                  <=> \E i \in 1..Len(files) : FileFails(files[i])
            /\ summary.passedFiles + summary.failedFiles = summary.totalFiles
            /\ summary.totalFiles = Len(summary.files)
            /\ summary.totalFiles = Len(files)
            /\ summary.failedFiles
                  = Cardinality({i \in 1..Len(files) : FileFails(files[i])})

\* a check has returned with a file that passed and a file that failed
CheckedPassAndFail ==
    /\ call.op = "runCheck"
    /\ call.returned
    /\ call.summary.passedFiles >= 1
    /\ call.summary.failedFiles >= 1

SecondFixUnchanged ==
    call.op = "runFix" /\ ~call.dryRun /\ call.lastFix # <<>> =>
        \A i \in 1..Len(call.results) :
            call.lastFix[1][i].action # "skipped"
            => /\ call.results[i] = Unchanged
               /\ files[i].content = call.before[i].content

\* the action fixFile decides on for a file it could read
Decision(file) ==
    At(LAMBDA parsed :
          IF ~hasValidHeader(file.content) THEN "created"
          ELSE IF /\ parsed.yearEnd >= CurrentYear
                  /\ \/ currentUser = <<>>
                     \/ HasEmail(parsed.contributors, currentUser[1].email)
          THEN "unchanged"
          ELSE "updated",
       parseHeader(file.content))

\* reading the file, or writing it for the decision taken, throws
Throws(file, dryRun) ==
    \/ ~file.readable
    \/ ~dryRun /\ ~file.writable /\ Decision(file) # "unchanged"

\* C28: fixFile classifies every file by one decision: "created" iff the
\* content has no valid header; "unchanged", with no write, iff it has a valid
\* header whose end year is not below the current year and the git user is
\* absent or already listed by email, letters compared without case;
\* "updated" in the remaining cases; "skipped" with modified false when
\* reading or writing throws; modified is true exactly for "created" and
\* "updated".
FixClassifies ==
    call.op = "runFix" =>
        \A i \in 1..Len(call.results) :
            \E file \in {call.before[i]}, result \in {call.results[i]} :
                /\ result.action
                      = IF Throws(file, call.dryRun) THEN "skipped"
                        ELSE Decision(file)
                /\ result.modified
                      <=> result.action \in {"created", "updated"}
                /\ result.action \in {"unchanged", "skipped"}
                      => files[i] = file

\* a file with a header of this year was updated for a git user it lacked
UpdatedForUserAlone ==
    /\ call.op = "runFix"
    /\ \E i \in 1..Len(call.results) :
          /\ call.results[i].action = "updated"
          /\ parseHeader(call.before[i].content).yearEnd >= CurrentYear

====
